---- MODULE Spec2Model ----
(***************************************************************************)
(* A model of the 3d-gif viewer's ingestion pipeline:                      *)
(*   - material normalisation (ModelFinalizer in components/LoadedModel    *)
(*     and MaterialProcessor in lib/materialProcessor),                    *)
(*   - texture classification of archive entries (lib/fileHandler),        *)
(*   - reference resolution (lib/fileLoader and the URL modifiers),        *)
(*   - the upload / asynchronous load life cycle (FileUpload, LoadedModel).*)
(* Each subsystem has its own specification over the shared variables; the *)
(* variables of the other subsystems stay at their idle values.            *)
(* Colour channels are integers n standing for n/255.  Strings that the    *)
(* code takes apart are sequences of one-character strings.                *)
(***************************************************************************)
EXTENDS Integers, Sequences, FiniteSets, TLC

VARIABLES
  \* ---- material normalisation
  variant,               \* which normaliser runs: "ModelFinalizer" | "MaterialProcessor"
  fileType,              \* modelData.type
  hasEmbeddedMaterials,  \* modelData.hasEmbeddedMaterials
  textures,              \* modelData.textures: the set of channel keys that hold a URL
  mats,                  \* the material objects: raw ones first, created ones appended
  meshes,                \* the scene's meshes, in traversal order
  pc,                    \* position inside finalizeModel / processModel
  cursor                 \* index of the next mesh to process

matVars == <<variant, fileType, hasEmbeddedMaterials, textures, mats, meshes, pc, cursor>>

VARIABLES
  \* ---- texture classification of a zip upload
  zipVariant,            \* which handleZipFile runs: "classifier" (lines 66-287) | "folders" (331-680)
  entries,               \* the archive's file entries (paths), in processing order
  textureMap,            \* channel -> index into entries of the file it holds, 0: unset
  zpc,                   \* position inside handleZipFile
  zcursor,               \* index of the next entry to classify
  modelFileEntry         \* index into entries of the model file chosen, 0: none

zipVars == <<zipVariant, entries, textureMap, zpc, zcursor, modelFileEntry>>

VARIABLES
  \* ---- FileLoader and the loading manager's URL modifier
  files,                 \* the {path, url} list handed to new FileLoader(...): paths; the url of files[i] is BlobUrl(i)
  rootPath,              \* FileLoader.rootPath
  fileMap,               \* FileLoader.fileMap, a Map: <<key, url>> pairs in insertion order
  filenameMap,           \* FileLoader.filenameMap, likewise
  rpc,                   \* "construct" before the constructor ran, "ready" after
  op,                    \* the last lookup made
  request,               \* its argument
  result                 \* what it returned

resolverVars == <<files, rootPath, fileMap, filenameMap, rpc, op, request, result>>

VARIABLES
  \* ---- uploads and the viewer's load of the current model data
  uploads,               \* processFile calls so far: [kind, state], in order
  isLoading,             \* Home's isLoading flag, which disables the upload input
  modelData,             \* Home's modelData: index into uploads, 0: null
  effectRan,             \* the modelData the LoadedModel effect last ran for
  loads,                 \* loadModel calls, one per upload: [state, overlapped]
  model,                 \* LoadedModel's model state, the displayed scene: upload index, 0: null
  allocated,             \* live resources: [kind: "blob" | "scene", upload]
  error                  \* FileUpload's error state, shown in the alert: [upload, message]

uploadVars == <<uploads, isLoading, modelData, effectRan, loads, model, allocated, error>>

VARIABLES
  \* ---- GIF recording (ModelViewer.startRecording, recordGif)
  gifSettings,           \* the settings prop: [duration2: twice the duration in seconds, fps]
  canvasWidth,           \* width of the viewer's canvas in pixels, 0 while it is collapsed
  isRecording,           \* ModelViewer's isRecording state
  recordingProgress,     \* ModelViewer's recordingProgress state, 0..100
  gifUrl,                \* 0: null, k: the URL made for the GIF of recording k
  recordings             \* the startRecording calls: [pc, totalFrames, frameCount, frames, renders, lastFrame]

gifVars == <<gifSettings, canvasWidth, isRecording, recordingProgress, gifUrl, recordings>>

vars == <<matVars, zipVars, resolverVars, uploadVars, gifVars>>

(***************************************************************************)
(* Bounds                                                                  *)
(***************************************************************************)
MaxMeshes == 2
MaxEntries == 3
MaxFiles == 2
MaxUploads == 3
MaxRecordings == 2

(***************************************************************************)
(* Generic helpers                                                         *)
(***************************************************************************)
Range(s) == {s[i] : i \in DOMAIN s}

(***************************************************************************)
(* Colours and textures                                                    *)
(***************************************************************************)
White   == <<255, 255, 255>>
Black   == <<0, 0, 0>>
Green   == <<51, 153, 51>>     \* (0.2, 0.6, 0.2)

\* convertColorToThreeColor(200, 200, 200): r/255, g/255, b/255
DefaultGray == <<200, 200, 200>>

\* new THREE.Color(0.8, 0.8, 0.8) of MaterialProcessor: 0.8 = 204/255
ProcessorGray == <<204, 204, 204>>

Slots == {"map", "normalMap", "roughnessMap", "metalnessMap", "emissiveMap",
          "aoMap", "bumpMap", "displacementMap", "alphaMap", "lightMap"}

\* texture.image: absent until the image is decoded, then its pixel size.
NullImg == [loaded |-> FALSE, w |-> 0, h |-> 0]
Img(w, h) == [loaded |-> TRUE, w |-> w, h |-> h]

\* A texture handle. src: who made it; key: the slot (embedded) or channel
\* (external) it was made for; colorSpace: "srgb" | "none".
NoTex == [src |-> "none", key |-> "", colorSpace |-> "", img |-> NullImg]

EmbeddedTex(slot, cs, img) ==
  [src |-> "embedded", key |-> slot, colorSpace |-> cs, img |-> img]

\* textureLoader.load(url) followed by configureTexture(texture, colorSpace):
\* the image of a texture that was just requested is not decoded yet.
ExternalTex(channel, cs) ==
  [src |-> "external", key |-> channel, colorSpace |-> cs, img |-> NullImg]

NoMaps == [s \in Slots |-> NoTex]

HasTex(t) == t.src # "none"

(***************************************************************************)
(* Materials.  A material object is a record; `of` is the raw material a   *)
(* created material was converted from (0 for a parser-made material).     *)
(***************************************************************************)
Material(name, type, color, vc, maps) ==
  [name |-> name, type |-> type, color |-> color, vertexColors |-> vc,
   maps |-> maps, replacedDefault |-> FALSE, of |-> 0]

\* THREE.Loader.DEFAULT_MATERIAL_NAME
DEFAULT_MATERIAL_NAME == "__DEFAULT"

isDefaultMaterial(material) ==
  LET isThreeDefault == material.name \in {"", "default", "Material", DEFAULT_MATERIAL_NAME}
      hasDefaultWhiteColor == material.color = White
      hasDefaultBlackColor == material.color = Black
  IN isThreeDefault \/ hasDefaultWhiteColor \/ hasDefaultBlackColor

isGLTF(ft) == ft \in {"gltf", "glb"}

isLowQualityTexture(texture) ==
  IF ~texture.img.loaded THEN TRUE
  ELSE IF texture.img.w # 0 /\ texture.img.h # 0
       THEN LET isTiny == texture.img.w <= 16 \/ texture.img.h <= 16
                isSquareSmall == /\ texture.img.w <= 64
                                 /\ texture.img.h <= 64
                                 /\ texture.img.w = texture.img.h
            IN isTiny \/ isSquareSmall
       ELSE FALSE

\* The slots applyTextureWithMultiplyLogic copies besides the diffuse map.
CopiedSlots == {"normalMap", "roughnessMap", "metalnessMap", "emissiveMap",
                "aoMap", "bumpMap", "displacementMap", "alphaMap"}

\* A variant that whitens the base colour under every diffuse map, as if
\* multiplyDiffuseMap were never consulted.
applyTextureAlwaysWhite(target, source, multiplyDiffuseMap) ==
  LET hasMap == HasTex(source.maps["map"])
  IN [target EXCEPT
        !.color = IF hasMap THEN White ELSE @,
        !.maps = [s \in Slots |->
                    IF s \in CopiedSlots \cup {"map"} /\ HasTex(source.maps[s])
                    THEN source.maps[s] ELSE target.maps[s]]]

applyTextureWithMultiplyLogic(target, source, multiplyDiffuseMap) ==
  LET hasMap == HasTex(source.maps["map"])
      color == IF hasMap /\ ~multiplyDiffuseMap THEN White ELSE target.color
      maps == [s \in Slots |->
                 IF s = "map" /\ hasMap THEN source.maps["map"]
                 ELSE IF s \in CopiedSlots /\ HasTex(source.maps[s]) THEN source.maps[s]
                 ELSE target.maps[s]]
  IN [target EXCEPT !.color = color, !.maps = maps]

MF_convertToStandardMaterial(originalMaterial, hasVertexColors, ft, rawId) ==
  LET isDefault == isDefaultMaterial(originalMaterial)
      base0 == IF ~isDefault THEN originalMaterial.color ELSE DefaultGray
      baseColor == IF hasVertexColors THEN White ELSE base0
      material == [Material("", "MeshStandardMaterial", baseColor, hasVertexColors, NoMaps)
                     EXCEPT !.of = rawId]
  IN applyTextureWithMultiplyLogic(material, originalMaterial, isGLTF(ft))

\* Channel -> (slot, colour space) of ModelFinalizer.applyExternalTextures,
\* in the order the code applies them.
MF_ExternalOrder == <<"normal", "roughness", "metallic", "ao", "emission", "lightmap">>

MF_ExternalSlot(ch) ==
  CASE ch = "normal" -> "normalMap"
    [] ch = "roughness" -> "roughnessMap"
    [] ch = "metallic" -> "metalnessMap"
    [] ch = "ao" -> "aoMap"
    [] ch = "emission" -> "emissiveMap"
    [] ch = "lightmap" -> "lightMap"

\* A variant that tags every injected texture sRGB
externalColorSpaceAlwaysSRGB(ch) == "srgb"

MF_ExternalColorSpace(ch) ==
  IF ch \in {"emission", "lightmap"} THEN "srgb" ELSE "none"

\* this.textures.diffuse || this.textures.albedo ; this.textures.lightmap || this.textures.light
HasDiffuseKey(tx) == "diffuse" \in tx \/ "albedo" \in tx
DiffuseKey(tx) == IF "diffuse" \in tx THEN "diffuse" ELSE "albedo"
HasChannel(tx, ch) ==
  IF ch = "lightmap" THEN "lightmap" \in tx \/ "light" \in tx ELSE ch \in tx
ChannelKey(tx, ch) ==
  IF ch = "lightmap" /\ "lightmap" \notin tx THEN "light" ELSE ch

MF_applyExternalTextures(material, hasVertexColors, ft, tx) ==
  IF hasVertexColors /\ tx = {} THEN material
  ELSE
    LET replaceDiffuse ==
          /\ HasDiffuseKey(tx)
          /\ (~HasTex(material.maps["map"]) \/ isLowQualityTexture(material.maps["map"]))
        color == IF replaceDiffuse /\ ~isGLTF(ft) THEN White ELSE material.color
        maps == [s \in Slots |->
                   IF s = "map"
                   THEN IF replaceDiffuse THEN ExternalTex(DiffuseKey(tx), "srgb")
                        ELSE material.maps[s]
                   ELSE LET chs == {c \in Range(MF_ExternalOrder) : MF_ExternalSlot(c) = s}
                        IN IF /\ chs # {}
                              /\ \E c \in chs : HasChannel(tx, c)
                              /\ ~HasTex(material.maps[s])
                           THEN LET c == CHOOSE c \in chs : HasChannel(tx, c)
                                IN ExternalTex(ChannelKey(tx, c), MF_ExternalColorSpace(c))
                           ELSE material.maps[s]]
    IN [material EXCEPT !.color = color, !.maps = maps]

MF_processMaterial(material, hasVertexColors, hasEmbedded, ft, tx, rawId) ==
  LET standardMaterial == MF_convertToStandardMaterial(material, hasVertexColors, ft, rawId)
      hasTexture == HasTex(standardMaterial.maps["map"])
      multiplyDiffuseMap == hasEmbedded \/ hasTexture
      shouldApplyExternalTextures == ~hasEmbedded /\ tx # {}
      m1 == IF shouldApplyExternalTextures
            THEN MF_applyExternalTextures(standardMaterial, hasVertexColors, ft, tx)
            ELSE standardMaterial
      m2 == IF HasTex(m1.maps["map"]) /\ ~multiplyDiffuseMap /\ ~hasVertexColors
            THEN [m1 EXCEPT !.color = White]
            ELSE m1
  IN IF hasEmbedded /\ hasVertexColors
     THEN [m2 EXCEPT !.vertexColors = TRUE, !.color = White]
     ELSE m2

(***************************************************************************)
(* Idle values: what a subsystem's variables hold while another runs       *)
(***************************************************************************)
TextureKeys == {"diffuse", "normal", "roughness", "metallic", "specular", "ao",
                "height", "emission", "lightmap", "opacity"}

ZipIdle ==
  /\ zipVariant = "none"
  /\ entries = <<>>
  /\ textureMap = [k \in TextureKeys |-> 0]
  /\ zpc = "idle"
  /\ zcursor = 0
  /\ modelFileEntry = 0

\* setError(null)
NoError == [upload |-> 0, message |-> ""]

UploadIdle ==
  /\ uploads = <<>>
  /\ isLoading = FALSE
  /\ modelData = 0
  /\ effectRan = 0
  /\ loads = <<>>
  /\ model = 0
  /\ allocated = {}
  /\ error = NoError

GifIdle ==
  /\ gifSettings = [duration2 |-> 0, fps |-> 0]
  /\ canvasWidth = 0
  /\ isRecording = FALSE
  /\ recordingProgress = 0
  /\ gifUrl = 0
  /\ recordings = <<>>

ResolverIdle ==
  /\ files = <<>>
  /\ rootPath = <<>>
  /\ fileMap = <<>>
  /\ filenameMap = <<>>
  /\ rpc = "idle"
  /\ op = "none"
  /\ request = <<>>
  /\ result = <<>>

MaterialIdle ==
  /\ variant = "none"
  /\ fileType = ""
  /\ hasEmbeddedMaterials = FALSE
  /\ textures = {}
  /\ mats = <<>>
  /\ meshes = <<>>
  /\ pc = "idle"
  /\ cursor = 0

(***************************************************************************)
(* MaterialProcessor (lib/materialProcessor.ts)                            *)
(***************************************************************************)
MP_PassThrough(material) ==
  material.type \in {"MeshStandardMaterial", "MeshPhysicalMaterial"}

\* The slots MaterialProcessor.copyMaterialProperties copies.
MP_CopiedSlots == CopiedSlots \cup {"map"}

MP_convertToStandardMaterial(originalMaterial, hasVertexColors, ft, rawId) ==
  IF MP_PassThrough(originalMaterial)
  THEN IF hasVertexColors /\ ~originalMaterial.vertexColors
       THEN [originalMaterial EXCEPT !.vertexColors = TRUE, !.color = White]
       ELSE originalMaterial
  ELSE
    LET base0 == IF ~isDefaultMaterial(originalMaterial)
                 THEN originalMaterial.color ELSE ProcessorGray
        baseColor == IF hasVertexColors THEN White ELSE base0
        maps == [s \in Slots |->
                   IF s \in MP_CopiedSlots /\ HasTex(originalMaterial.maps[s])
                   THEN originalMaterial.maps[s] ELSE NoTex]
        color == IF HasTex(maps["map"]) /\ ~isGLTF(ft) THEN White ELSE baseColor
    IN [Material("", "MeshStandardMaterial", color, hasVertexColors, maps)
          EXCEPT !.of = rawId]

MP_ExternalSlot(ch) ==
  CASE ch = "normal" -> "normalMap"
    [] ch = "roughness" -> "roughnessMap"
    [] ch = "metallic" -> "metalnessMap"
    [] ch = "ao" -> "aoMap"

MP_ExternalChannels == {"normal", "roughness", "metallic", "ao"}

MP_applyExternalTextures(material, tx) ==
  IF tx = {} THEN material
  ELSE
    LET addDiffuse == HasDiffuseKey(tx) /\ ~HasTex(material.maps["map"])
        maps == [s \in Slots |->
                   IF s = "map"
                   THEN IF addDiffuse THEN ExternalTex(DiffuseKey(tx), "srgb")
                        ELSE material.maps[s]
                   ELSE LET chs == {c \in MP_ExternalChannels : MP_ExternalSlot(c) = s}
                        IN IF /\ \E c \in chs : c \in tx
                              /\ ~HasTex(material.maps[s])
                           THEN ExternalTex(CHOOSE c \in chs : c \in tx, "none")
                           ELSE material.maps[s]]
    IN [material EXCEPT !.color = IF addDiffuse THEN White ELSE @, !.maps = maps]

MP_processMaterial(material, hasVertexColors, hasEmbedded, ft, tx, rawId) ==
  LET standardMaterial == MP_convertToStandardMaterial(material, hasVertexColors, ft, rawId)
  IN IF ~hasEmbedded THEN MP_applyExternalTextures(standardMaterial, tx)
     ELSE standardMaterial

(***************************************************************************)
(* The scene.  The parser's materials are the objects 1..Len(RawPool);     *)
(* meshes refer to material objects by index, so two meshes share a raw    *)
(* material when they hold the same index.                                 *)
(***************************************************************************)
BigImg == Img(512, 512)

LegacyMaps(mapImg, withNormal) ==
  [s \in Slots |->
     IF s = "map" /\ mapImg.loaded THEN EmbeddedTex("map", "srgb", mapImg)
     ELSE IF s = "normalMap" /\ withNormal THEN EmbeddedTex("normalMap", "none", BigImg)
     ELSE NoTex]

\* What OBJLoader/MTLLoader and FBXLoader build (MeshPhongMaterial) ...
LegacyPool ==
  << Material("", "MeshPhongMaterial", White, FALSE, NoMaps),
     Material("wood", "MeshPhongMaterial", Green, FALSE, LegacyMaps(BigImg, FALSE)),
     Material("paint", "MeshPhongMaterial", Green, FALSE, NoMaps),
     Material("bark", "MeshPhongMaterial", White, FALSE, LegacyMaps(Img(16, 16), TRUE)) >>

\* ... and what GLTFLoader builds (MeshStandardMaterial, or MeshBasicMaterial
\* for an unlit material; vertexColors is set on the material of a primitive
\* that has a COLOR_0 attribute).
GltfPool ==
  << Material("leaf", "MeshStandardMaterial", Green, FALSE, LegacyMaps(BigImg, FALSE)),
     Material("leafVC", "MeshStandardMaterial", Green, TRUE, NoMaps),
     Material("", "MeshStandardMaterial", White, FALSE, LegacyMaps(BigImg, TRUE)),
     Material("unlit", "MeshBasicMaterial", Black, FALSE, NoMaps) >>

RawPool == LegacyPool \o GltfPool

RawIds == 1..Len(RawPool)

\* The raw materials a parser of this file type can produce.
RawIdsOf(ft) ==
  IF isGLTF(ft) THEN {i \in RawIds : i > Len(LegacyPool)}
  ELSE {i \in RawIds : i <= Len(LegacyPool)}

\* mesh.material: one material, or an array of two.
MaterialRefs(ft) ==
  {<<a>> : a \in RawIdsOf(ft)} \cup
  {<<a, a + 1>> : a \in {x \in RawIdsOf(ft) : x + 1 \in RawIdsOf(ft) /\ x % 2 = 1}}

Mesh(hasVC, refs) ==
  [hasVertexColors |-> hasVC, material |-> refs, raw |-> refs,
   castShadow |-> FALSE, receiveShadow |-> FALSE, processed |-> FALSE]

\* GLTFLoader gives a primitive with vertex colours its own copy of the
\* material, with vertexColors set: such a material is never shared with a
\* primitive that has none.  OBJ/FBX materials are shared by name or id.
ParserCanBuild(ft, hasVC, refs) ==
  isGLTF(ft) => \A k \in DOMAIN refs : RawPool[refs[k]].vertexColors = hasVC

MeshesOf(ft) ==
  {Mesh(p[1], p[2]) : p \in {q \in BOOLEAN \X MaterialRefs(ft) : ParserCanBuild(ft, q[1], q[2])}}

Scenes(ft) ==
  UNION {[1..n -> MeshesOf(ft)] : n \in 1..MaxMeshes}

\* modelData.textures as the upload handlers can leave it (channel keys).
TextureMaps == {{}, {"diffuse"}, {"diffuse", "normal"}, {"normal", "lightmap"}}

\* (type, hasEmbeddedMaterials, textures) as handleFileUpload produces them:
\* hasEmbeddedMaterials is true for fbx/glb/gltf, false for obj, and (second
\* handleZipFile) true for an obj archive without classified textures.
ModelDatas ==
  {[type |-> t, hasEmbeddedMaterials |-> e, textures |-> x] :
     t \in {"obj", "fbx", "gltf", "glb"}, e \in BOOLEAN, x \in TextureMaps}

ReachableModelData(d) ==
  IF d.type = "obj"
  THEN d.hasEmbeddedMaterials => d.textures = {}
  ELSE d.hasEmbeddedMaterials

AllMaterials == UNION {Range(meshes[i].raw) : i \in DOMAIN meshes}

InitMaterial ==
  /\ variant \in {"ModelFinalizer", "MaterialProcessor"}
  /\ \E d \in {x \in ModelDatas : ReachableModelData(x)} :
       /\ fileType = d.type
       /\ hasEmbeddedMaterials = d.hasEmbeddedMaterials
       /\ textures = d.textures
  /\ mats = RawPool
  /\ meshes \in Scenes(fileType)
  /\ pc = IF variant = "ModelFinalizer" THEN "replaceDefaultMaterials" ELSE "meshes"
  /\ cursor = 1
  /\ ZipIdle
  /\ ResolverIdle
  /\ UploadIdle
  /\ GifIdle

(***************************************************************************)
(* ModelFinalizer.finalizeModel, pass by pass                              *)
(***************************************************************************)
replaceDefaultMaterials(heap, materials, hasEmbedded) ==
  IF hasEmbedded THEN heap
  ELSE [i \in DOMAIN heap |->
          IF i \in materials /\ isDefaultMaterial(heap[i])
          THEN [heap[i] EXCEPT !.color = DefaultGray, !.replacedDefault = TRUE]
          ELSE heap[i]]

MF_ReplaceDefaultMaterials ==
  /\ pc = "replaceDefaultMaterials"
  /\ mats' = replaceDefaultMaterials(mats, AllMaterials, hasEmbeddedMaterials)
  /\ pc' = "finalizeMaterialVertexColors"
  /\ UNCHANGED <<variant, fileType, hasEmbeddedMaterials, textures, meshes, cursor>>
  /\ UNCHANGED <<zipVars, resolverVars, uploadVars, gifVars>>

\* materialHasVertexColors after the first k meshes were analysed: a material
\* seen for the first time takes the mesh's flag, a later mesh without
\* vertex colours clears it.  0: not seen, 1: false, 2: true.
RECURSIVE materialHasVertexColors(_, _)
materialHasVertexColors(ms, k) ==
  IF k = 0 THEN [i \in RawIds |-> 0]
  ELSE LET prev == materialHasVertexColors(ms, k - 1)
           mesh == ms[k]
       IN [i \in RawIds |->
             IF i \notin Range(mesh.material) THEN prev[i]
             ELSE IF prev[i] = 0 THEN (IF mesh.hasVertexColors THEN 2 ELSE 1)
             ELSE IF ~mesh.hasVertexColors THEN 1
             ELSE prev[i]]

finalizeMaterialVertexColors(heap, ms) ==
  LET flags == materialHasVertexColors(ms, Len(ms))
  IN [i \in DOMAIN heap |->
        IF i \in RawIds /\ flags[i] # 0
        THEN [heap[i] EXCEPT !.vertexColors = (flags[i] = 2)]
        ELSE heap[i]]

MF_FinalizeMaterialVertexColors ==
  /\ pc = "finalizeMaterialVertexColors"
  /\ mats' = finalizeMaterialVertexColors(mats, meshes)
  /\ pc' = "meshes"
  /\ UNCHANGED <<variant, fileType, hasEmbeddedMaterials, textures, meshes, cursor>>
  /\ UNCHANGED <<zipVars, resolverVars, uploadVars, gifVars>>

\* mesh.material = materialArray.map(mat => this.processMaterial(mat, ...)):
\* every slot gets a material object of its own, appended to the heap.
RECURSIVE MF_processSlots(_, _, _, _)
MF_processSlots(heap, refs, hasVC, k) ==
  IF k > Len(refs) THEN [heap |-> heap, refs |-> refs]
  ELSE LET created == MF_processMaterial(heap[refs[k]], hasVC, hasEmbeddedMaterials,
                                         fileType, textures, refs[k])
           heap1 == Append(heap, created)
       IN MF_processSlots(heap1, [refs EXCEPT ![k] = Len(heap1)], hasVC, k + 1)

MF_ProcessMesh ==
  /\ variant = "ModelFinalizer"
  /\ pc = "meshes"
  /\ cursor <= Len(meshes)
  /\ LET mesh == meshes[cursor]
         r == MF_processSlots(mats, mesh.material, mesh.hasVertexColors, 1)
     IN /\ mats' = r.heap
        /\ meshes' = [meshes EXCEPT ![cursor] =
                        [mesh EXCEPT !.material = r.refs, !.castShadow = TRUE,
                                     !.receiveShadow = TRUE, !.processed = TRUE]]
  /\ cursor' = cursor + 1
  /\ pc' = IF cursor = Len(meshes) THEN "done" ELSE "meshes"
  /\ UNCHANGED <<variant, fileType, hasEmbeddedMaterials, textures>>
  /\ UNCHANGED <<zipVars, resolverVars, uploadVars, gifVars>>

(***************************************************************************)
(* MaterialProcessor.processModel: one traversal, mesh by mesh             *)
(***************************************************************************)
RECURSIVE MP_processSlots(_, _, _, _)
MP_processSlots(heap, refs, hasVC, k) ==
  IF k > Len(refs) THEN [heap |-> heap, refs |-> refs]
  ELSE LET orig == heap[refs[k]]
           processed == MP_processMaterial(orig, hasVC, hasEmbeddedMaterials,
                                        fileType, textures, refs[k])
       IN IF MP_PassThrough(orig)
          \* the raw object itself is returned (and was changed in place)
          THEN MP_processSlots([heap EXCEPT ![refs[k]] = processed], refs, hasVC, k + 1)
          ELSE LET heap1 == Append(heap, processed)
               IN MP_processSlots(heap1, [refs EXCEPT ![k] = Len(heap1)], hasVC, k + 1)

MP_ProcessMesh ==
  /\ variant = "MaterialProcessor"
  /\ pc = "meshes"
  /\ cursor <= Len(meshes)
  /\ LET mesh == meshes[cursor]
         r == MP_processSlots(mats, mesh.material, mesh.hasVertexColors, 1)
     IN /\ mats' = r.heap
        /\ meshes' = [meshes EXCEPT ![cursor] =
                        [mesh EXCEPT !.material = r.refs, !.castShadow = TRUE,
                                     !.receiveShadow = TRUE, !.processed = TRUE]]
  /\ cursor' = cursor + 1
  /\ pc' = IF cursor = Len(meshes) THEN "done" ELSE "meshes"
  /\ UNCHANGED <<variant, fileType, hasEmbeddedMaterials, textures>>
  /\ UNCHANGED <<zipVars, resolverVars, uploadVars, gifVars>>

NextMaterial ==
  \/ MF_ReplaceDefaultMaterials
  \/ MF_FinalizeMaterialVertexColors
  \/ MF_ProcessMesh
  \/ MP_ProcessMesh

SpecMaterial == InitMaterial /\ [][NextMaterial]_vars

(***************************************************************************)
(* Material claims                                                         *)
(***************************************************************************)
\* The material slots of the meshes that were processed.
EmittedSlots == {<<i, k>> \in (DOMAIN meshes) \X (1..2) :
                   k \in DOMAIN meshes[i].material /\ meshes[i].processed}

Emitted(sl) == mats[meshes[sl[1]].material[sl[2]]]
RawOf(sl) == RawPool[meshes[sl[1]].raw[sl[2]]]
SlotHasVC(sl) == meshes[sl[1]].hasVertexColors

\* C1 (as stated): an emitted material with a diffuse map is pure white for
\* OBJ/FBX, and for GLTF/GLB without vertex colours keeps the raw material's
\* own base colour.
C1_Original ==
  \A sl \in EmittedSlots :
    HasTex(Emitted(sl).maps["map"]) =>
      /\ fileType \in {"obj", "fbx"} => Emitted(sl).color = White
      /\ (isGLTF(fileType) /\ ~SlotHasVC(sl)) => Emitted(sl).color = RawOf(sl).color

\* C1 (amended): an emitted material with a diffuse map is pure white for
\* OBJ/FBX; for GLTF/GLB without vertex colours it keeps the raw material's own
\* base colour when the raw material is not a default/placeholder material.
C1_DiffuseColourRule ==
  \A sl \in EmittedSlots :
    HasTex(Emitted(sl).maps["map"]) =>
      /\ fileType \in {"obj", "fbx"} => Emitted(sl).color = White
      /\ (isGLTF(fileType) /\ ~SlotHasVC(sl) /\ ~isDefaultMaterial(RawOf(sl)))
           => Emitted(sl).color = RawOf(sl).color

C1_Witness ==
  \E sl \in EmittedSlots :
    /\ variant = "ModelFinalizer"
    /\ fileType = "glb"
    /\ HasTex(Emitted(sl).maps["map"])
    /\ ~SlotHasVC(sl)
    /\ ~isDefaultMaterial(RawOf(sl))
    /\ Emitted(sl).color = Green

\* C2: a default/placeholder raw material, normalised for a mesh without
\* vertex colours and ending without a diffuse map, is emitted with the
\* neutral gray 200/255 on every channel.
C2_DefaultGray ==
  \A sl \in EmittedSlots :
    (isDefaultMaterial(RawOf(sl)) /\ ~SlotHasVC(sl) /\ ~HasTex(Emitted(sl).maps["map"]))
      => Emitted(sl).color = DefaultGray

\* C3: a material normalised with hasVertexColors = true is emitted pure
\* white with vertexColors = true.
C3_VertexColourWhite ==
  \A sl \in EmittedSlots :
    SlotHasVC(sl) => (Emitted(sl).color = White /\ Emitted(sl).vertexColors)

\* The meshes that referenced raw material r before finalisation.
Sharers(r) == {i \in DOMAIN meshes : r \in Range(meshes[i].raw)}

\* C4: after finalizeModel, a raw material shared by two or more meshes of
\* which one has no vertex colours is normalised with vertexColors = false on
\* every sharer.
C4_PessimisticMerge ==
  (variant = "ModelFinalizer" /\ pc = "done") =>
    \A r \in RawIds :
      (Cardinality(Sharers(r)) >= 2 /\ \E i \in Sharers(r) : ~meshes[i].hasVertexColors)
        => \A sl \in EmittedSlots :
             meshes[sl[1]].raw[sl[2]] = r => ~Emitted(sl).vertexColors

\* C5: each distinct raw material is normalised exactly once and the result
\* is shared: slots that held the same raw material hold the same normalised
\* object, and as many materials are created as there are distinct raw ones.
C5_NormalisedOnce ==
  (variant = "ModelFinalizer" /\ pc = "done") =>
    /\ \A s1, s2 \in EmittedSlots :
         meshes[s1[1]].raw[s1[2]] = meshes[s2[1]].raw[s2[2]]
           => meshes[s1[1]].material[s1[2]] = meshes[s2[1]].material[s2[2]]
    /\ Len(mats) - Len(RawPool) = Cardinality(AllMaterials)

\* C13: external textures never overwrite a map the parser populated: a
\* slot that holds a map on the raw material holds that same map on the
\* emitted material.
C13_EmbeddedMapKept ==
  \A sl \in EmittedSlots :
    \A s \in Slots :
      HasTex(RawOf(sl).maps[s]) => Emitted(sl).maps[s] = RawOf(sl).maps[s]

\* The slots whose map holds colour data
ColourSlots == {"map", "emissiveMap", "lightMap"}

\* C14: on every emitted material a map in the diffuse, emission or lightmap
\* slot is tagged sRGB and a map in any other slot is tagged linear (no
\* colour space), for copied and for injected maps alike.
C14_ColourSpaceTags ==
  \A sl \in EmittedSlots :
    \A s \in Slots :
      HasTex(Emitted(sl).maps[s]) =>
        Emitted(sl).maps[s].colorSpace = (IF s \in ColourSlots THEN "srgb" ELSE "none")

\* A material that carries a copied diffuse map next to an injected normal
\* map and an injected lightmap
C14_Witness ==
  \E sl \in EmittedSlots :
    /\ Emitted(sl).maps["map"].src = "embedded"
    /\ Emitted(sl).maps["normalMap"].src = "external"
    /\ Emitted(sl).maps["lightMap"].src = "external"

CarriesLightmap(i) ==
  \E k \in DOMAIN meshes[i].material : HasTex(mats[meshes[i].material[k]].maps["lightMap"])

\* C15: after finalization a mesh casts and receives shadows, except a mesh
\* whose normalized material carries a lightmap, which does neither.
C15_ShadowFlags ==
  \A i \in DOMAIN meshes :
    meshes[i].processed =>
      /\ meshes[i].castShadow = ~CarriesLightmap(i)
      /\ meshes[i].receiveShadow = ~CarriesLightmap(i)

\* C24: no step of finalization changes the colour, the vertexColors flag
\* or the userData of a material the parser made.
C24_RawMaterialsReadOnly ==
  [][\A i \in RawIds :
       (i \in DOMAIN mats /\ i \in DOMAIN mats') =>
         /\ mats'[i].color = mats[i].color
         /\ mats'[i].vertexColors = mats[i].vertexColors
         /\ mats'[i].replacedDefault = mats[i].replacedDefault]_vars

(***************************************************************************)
(* Strings as sequences of characters                                      *)
(***************************************************************************)
UpperCase == <<"A", "B", "C", "D", "E", "F", "G", "H", "I", "J", "K", "L", "M",
               "N", "O", "P", "Q", "R", "S", "T", "U", "V", "W", "X", "Y", "Z">>
LowerCase == <<"a", "b", "c", "d", "e", "f", "g", "h", "i", "j", "k", "l", "m",
               "n", "o", "p", "q", "r", "s", "t", "u", "v", "w", "x", "y", "z">>

\* String.prototype.toLowerCase, character by character
LowerTable == [c \in Range(UpperCase) |-> LowerCase[CHOOSE i \in DOMAIN UpperCase : UpperCase[i] = c]]
UpperLetters == Range(UpperCase)

LowerChar(c) == IF c \in UpperLetters THEN LowerTable[c] ELSE c

toLowerCase(str) == [i \in DOMAIN str |-> LowerChar(str[i])]

\* str.substring(i - 1, j) in the code's 0-based terms
Sub(str, i, j) == IF i > j THEN <<>> ELSE SubSeq(str, i, j)

MatchesAt(str, pat, i) ==
  /\ i >= 1
  /\ i + Len(pat) - 1 <= Len(str)
  /\ \A j \in 1..Len(pat) : str[i + j - 1] = pat[j]

includes(str, pat) == \E i \in 1..(Len(str) + 1) : MatchesAt(str, pat, i)
startsWith(str, pat) == MatchesAt(str, pat, 1)
endsWith(str, pat) == MatchesAt(str, pat, Len(str) - Len(pat) + 1)

\* Index of the first / last occurrence of pat in str, 0 when there is none
Occurrences(str, pat) == {i \in 1..(Len(str) + 1) : MatchesAt(str, pat, i)}
indexOf(str, pat) ==
  LET occ == Occurrences(str, pat)
  IN IF occ = {} THEN 0 ELSE CHOOSE i \in occ : \A j \in occ : i <= j
lastIndexOf(str, pat) ==
  LET occ == Occurrences(str, pat)
  IN IF occ = {} THEN 0 ELSE CHOOSE i \in occ : \A j \in occ : i >= j

\* str.split(sep).pop(): what follows the last sep (all of str without one)
LastPart(str, sep) ==
  LET i == lastIndexOf(str, <<sep>>)
  IN IF i = 0 THEN str ELSE Sub(str, i + 1, Len(str))

\* str.split(sep)[0]: what precedes the first sep
FirstPart(str, sep) ==
  LET i == indexOf(str, <<sep>>)
  IN IF i = 0 THEN str ELSE Sub(str, 1, i - 1)

\* str.replace(pat, '') with a string pattern: the first occurrence only
RemoveFirst(str, pat) ==
  LET i == indexOf(str, pat)
  IN IF i = 0 \/ pat = <<>> THEN str
     ELSE Sub(str, 1, i - 1) \o Sub(str, i + Len(pat), Len(str))

\* str.replace(/[..]/g, ''): every character of the class removed
RECURSIVE RemoveChars(_, _)
RemoveChars(str, class) ==
  IF str = <<>> THEN <<>>
  ELSE (IF Head(str) \in class THEN <<>> ELSE <<Head(str)>>) \o RemoveChars(Tail(str), class)

\* str.replace(/\\/g, '/')
RECURSIVE SlashNormalize(_)
SlashNormalize(str) ==
  IF str = <<>> THEN <<>>
  ELSE <<IF Head(str) = "\\" THEN "/" ELSE Head(str)>> \o SlashNormalize(Tail(str))

(***************************************************************************)
(* Texture classification of an archive's entries (lib/fileHandler.ts)     *)
(***************************************************************************)
\* basePatterns, in the insertion order Object.entries walks
ChannelOrder == <<"diffuse", "normal", "roughness", "metallic", "ao", "height",
                  "emission", "lightmap", "opacity">>

basePatternTable ==
  [ diffuse |->
      << <<"d", "i", "f", "f", "u", "s", "e">>,
         <<"a", "l", "b", "e", "d", "o">>,
         <<"c", "o", "l", "o", "r">>,
         <<"b", "a", "s", "e">>,
         <<"d", "i", "f", "f">>,
         <<"c", "o", "l">>,
         <<"b", "a", "s", "e", "c", "o", "l", "o", "r">>,
         <<"t", "e", "x">>,
         <<"m", "a", "i", "n">>,
         <<"d", "i", "f", "f", "u", "s", "e", "m", "a", "p">>,
         <<"c", "o", "l", "o", "r", "m", "a", "p">>,
         <<"b", "a", "s", "e", "m", "a", "p">>,
         <<"m", "a", "t", "e", "r", "i", "a", "l">>,
         <<"s", "u", "r", "f", "a", "c", "e">> >>
    , normal |->
      << <<"n", "o", "r", "m", "a", "l">>,
         <<"n", "o", "r", "m">>,
         <<"b", "u", "m", "p">>,
         <<"n", "r", "m">>,
         <<"n", "o", "r", "m", "a", "l", "m", "a", "p">>,
         <<"b", "u", "m", "p", "m", "a", "p">>,
         <<"h", "e", "i", "g", "h", "t">>,
         <<"r", "e", "l", "i", "e", "f">> >>
    , roughness |->
      << <<"r", "o", "u", "g", "h", "n", "e", "s", "s">>,
         <<"r", "o", "u", "g", "h">>,
         <<"r", "g", "h">>,
         <<"r", "o", "u", "g", "h", "n", "e", "s", "s", "m", "a", "p">>,
         <<"g", "l", "o", "s", "s">>,
         <<"g", "l", "o", "s", "s", "i", "n", "e", "s", "s">>,
         <<"s", "m", "o", "o", "t", "h", "n", "e", "s", "s">> >>
    , metallic |->
      << <<"m", "e", "t", "a", "l", "l", "i", "c">>,
         <<"m", "e", "t", "a", "l">>,
         <<"m", "e", "t", "a", "l", "n", "e", "s", "s">>,
         <<"m", "e", "t">>,
         <<"m", "e", "t", "a", "l", "l", "i", "c", "m", "a", "p">>,
         <<"s", "p", "e", "c">>,
         <<"s", "p", "e", "c", "u", "l", "a", "r">>,
         <<"r", "e", "f", "l", "e", "c", "t", "i", "o", "n">> >>
    , ao |->
      << <<"a", "o">>,
         <<"a", "m", "b", "i", "e", "n", "t", "o", "c", "c", "l", "u", "s", "i", "o", "n">>,
         <<"o", "c", "c", "l", "u", "s", "i", "o", "n">>,
         <<"a", "m", "b", "i", "e", "n", "t">>,
         <<"s", "h", "a", "d", "o", "w">>,
         <<"c", "a", "v", "i", "t", "y">> >>
    , height |->
      << <<"h", "e", "i", "g", "h", "t">>,
         <<"d", "i", "s", "p", "l", "a", "c", "e", "m", "e", "n", "t">>,
         <<"d", "i", "s", "p">>,
         <<"h", "e", "i", "g", "h", "t", "m", "a", "p">>,
         <<"p", "a", "r", "a", "l", "l", "a", "x">>,
         <<"d", "e", "p", "t", "h">> >>
    , emission |->
      << <<"e", "m", "i", "s", "s", "i", "v", "e">>,
         <<"e", "m", "i", "s", "s", "i", "o", "n">>,
         <<"g", "l", "o", "w">>,
         <<"e", "m", "i", "t">>,
         <<"e", "m", "i", "s", "s", "i", "v", "e", "m", "a", "p">>,
         <<"l", "i", "g", "h", "t">>,
         <<"l", "u", "m", "i", "n", "a", "n", "c", "e">> >>
    , lightmap |->
      << <<"l", "i", "g", "h", "t", "m", "a", "p">>,
         <<"l", "i", "g", "h", "t", "i", "n", "g">>,
         <<"b", "a", "k", "e", "d">>,
         <<"i", "l", "l", "u", "m", "i", "n", "a", "t", "i", "o", "n">>,
         <<"l", "i", "g", "h", "t", "i", "n", "g", "m", "a", "p">>,
         <<"g", "i">>,
         <<"i", "n", "d", "i", "r", "e", "c", "t">> >>
    , opacity |->
      << <<"o", "p", "a", "c", "i", "t", "y">>,
         <<"a", "l", "p", "h", "a">>,
         <<"t", "r", "a", "n", "s", "p", "a", "r", "e", "n", "t">>,
         <<"m", "a", "s", "k">>,
         <<"a", "l", "p", "h", "a", "m", "a", "p">>,
         <<"t", "r", "a", "n", "s", "p", "a", "r", "e", "n", "c", "y">> >> ]

basePatterns(type) == basePatternTable[type]

\* extensions
ImageExtensions ==
  { <<"j", "p", "g">>,
    <<"j", "p", "e", "g">>,
    <<"p", "n", "g">>,
    <<"g", "i", "f">>,
    <<"b", "m", "p">>,
    <<"t", "g", "a">>,
    <<"t", "i", "f", "f">>,
    <<"w", "e", "b", "p">>,
    <<"h", "d", "r">>,
    <<"e", "x", "r">> }

\* The branches of processTextureFiles' if / else-if chain, in order
BranchOrder == <<"diffuse", "normal", "roughness", "metallic", "specular", "ao",
                 "opacity", "height", "emission", "lightmap">>

branchPatternTable ==
  [ diffuse |->
      << <<"d", "i", "f", "f", "u", "s", "e">>,
         <<"a", "l", "b", "e", "d", "o">>,
         <<"c", "o", "l", "o", "r">>,
         <<"b", "a", "s", "e">>,
         <<"d", "i", "f", "f">>,
         <<"c", "o", "l">>,
         <<"b", "a", "s", "e", "c", "o", "l", "o", "r">>,
         <<"t", "e", "x">>,
         <<"m", "a", "i", "n">> >>
    , normal |->
      << <<"n", "o", "r", "m", "a", "l">>,
         <<"n", "o", "r", "m">>,
         <<"b", "u", "m", "p">>,
         <<"n", "r", "m">>,
         <<"n", "o", "r", "m", "a", "l", "m", "a", "p">>,
         <<"b", "m", "p">> >>
    , roughness |->
      << <<"r", "o", "u", "g", "h", "n", "e", "s", "s">>,
         <<"r", "o", "u", "g", "h">>,
         <<"r", "g", "h">>,
         <<"r", "o", "u", "g", "h", "n", "e", "s", "s", "m", "a", "p">> >>
    , metallic |->
      << <<"m", "e", "t", "a", "l", "l", "i", "c">>,
         <<"m", "e", "t", "a", "l">>,
         <<"m", "e", "t", "a", "l", "n", "e", "s", "s">>,
         <<"m", "e", "t">>,
         <<"m", "e", "t", "a", "l", "l", "i", "c", "m", "a", "p">> >>
    , specular |->
      << <<"s", "p", "e", "c", "u", "l", "a", "r">>,
         <<"s", "p", "e", "c">>,
         <<"r", "e", "f", "l", "e", "c", "t", "i", "o", "n">>,
         <<"r", "e", "f", "l">>,
         <<"s", "p", "e", "c", "u", "l", "a", "r", "m", "a", "p">> >>
    , ao |->
      << <<"a", "o">>,
         <<"a", "m", "b", "i", "e", "n", "t">>,
         <<"o", "c", "c", "l", "u", "s", "i", "o", "n">>,
         <<"a", "m", "b", "i", "e", "n", "t", "o", "c", "c", "l", "u", "s", "i", "o", "n">>,
         <<"a", "o", "m", "a", "p">> >>
    , opacity |->
      << <<"o", "p", "a", "c", "i", "t", "y">>,
         <<"a", "l", "p", "h", "a">>,
         <<"t", "r", "a", "n", "s", "p", "a", "r", "e", "n", "t">>,
         <<"m", "a", "s", "k">>,
         <<"a", "l", "p", "h", "a", "m", "a", "p">> >>
    , height |->
      << <<"h", "e", "i", "g", "h", "t">>,
         <<"d", "i", "s", "p", "l", "a", "c", "e", "m", "e", "n", "t">>,
         <<"d", "i", "s", "p">>,
         <<"h", "e", "i", "g", "h", "t", "m", "a", "p">>,
         <<"p", "a", "r", "a", "l", "l", "a", "x">> >>
    , emission |->
      << <<"e", "m", "i", "s", "s", "i", "o", "n">>,
         <<"e", "m", "i", "s", "s", "i", "v", "e">>,
         <<"g", "l", "o", "w">>,
         <<"e", "m", "i", "s", "s", "i", "v", "e", "m", "a", "p">> >>
    , lightmap |->
      << <<"l", "i", "g", "h", "t", "m", "a", "p">>,
         <<"l", "i", "g", "h", "t">>,
         <<"l", "i", "g", "h", "t", "i", "n", "g">>,
         <<"b", "a", "k", "e", "d">>,
         <<"i", "l", "l", "u", "m", "i", "n", "a", "t", "i", "o", "n">>,
         <<"l", "i", "g", "h", "t", "i", "n", "g", "m", "a", "p">> >> ]

branchPatterns(type) == branchPatternTable[type]

\* the extension test of processTextureFiles
TextureExtensions ==
  { <<"j", "p", "g">>,
    <<"j", "p", "e", "g">>,
    <<"p", "n", "g">>,
    <<"b", "m", "p">>,
    <<"t", "g", "a">>,
    <<"g", "i", "f">> }

\* Archive entries the model draws from
EntryPool ==
  { <<"t", "e", "x", "t", "u", "r", "e", "s", "/", "w", "o", "o", "d", "_", "d", "i", "f", "f", "u", "s", "e", ".", "p", "n", "g">>,
    <<"t", "e", "x", "t", "u", "r", "e", "s", "/", "m", "e", "t", "a", "l", "_", "c", "o", "l", "o", "r", ".", "p", "n", "g">>,
    <<"t", "e", "x", "t", "u", "r", "e", "s", "/", "w", "o", "o", "d", "_", "n", "r", "m", ".", "p", "n", "g">>,
    <<"t", "e", "x", "t", "u", "r", "e", "s", "/", "p", "h", "o", "t", "o", ".", "p", "n", "g">>,
    <<"t", "e", "x", "t", "u", "r", "e", "s", "/", "s", "c", "a", "n", ".", "j", "p", "g">>,
    <<"m", "o", "d", "e", "l", ".", "o", "b", "j">>,
    <<"s", "c", "e", "n", "e", ".", "g", "l", "b">>,
    <<"s", "o", "u", "r", "c", "e", "/", "s", "h", "i", "p", ".", "f", "b", "x">>,
    <<"t", "e", "x", "t", "u", "r", "e", "s", "/", "r", "o", "u", "g", "h", "_", "h", "e", "i", "g", "h", "t", ".", "t", "g", "a">> }

ModelExtensions == {<<"o", "b", "j">>, <<"f", "b", "x">>, <<"g", "l", "t", "f">>, <<"g", "l", "b">>}

\* path.split('.').pop()?.toLowerCase()
ExtensionOf(path) == toLowerCase(LastPart(path, "."))

\* The first entry with a model extension (files.find(...) in the first
\* handleZipFile, the first loop over zipContent.files in the second), 0: none
ModelEntry(es) ==
  IF \E i \in DOMAIN es : ExtensionOf(es[i]) \in ModelExtensions
  THEN CHOOSE i \in DOMAIN es :
         /\ ExtensionOf(es[i]) \in ModelExtensions
         /\ \A j \in 1..(i - 1) : ExtensionOf(es[j]) \notin ModelExtensions
  ELSE 0

ModelTypeOf(es) == IF ModelEntry(es) = 0 THEN <<>> ELSE ExtensionOf(es[ModelEntry(es)])

\* Sequences of distinct entries
RECURSIVE EntrySeqs(_)
EntrySeqs(n) ==
  IF n = 0 THEN {<<>>}
  ELSE LET shorter == EntrySeqs(n - 1)
       IN shorter \cup
          {Append(q, e) : q \in {x \in shorter : Len(x) = n - 1},
                          e \in EntryPool}

DistinctEntries(es) == \A i, j \in DOMAIN es : i # j => es[i] # es[j]

InitZip ==
  /\ zipVariant \in {"classifier", "folders"}
  /\ entries \in {es \in EntrySeqs(MaxEntries) : es # <<>> /\ DistinctEntries(es)}
  /\ textureMap = [k \in TextureKeys |-> 0]
  /\ zpc = IF zipVariant = "classifier" THEN "classify" ELSE "findModel"
  /\ zcursor = 1
  /\ modelFileEntry = 0
  /\ MaterialIdle
  /\ ResolverIdle
  /\ UploadIdle
  /\ GifIdle

\* ---- first handleZipFile: the classification loop (lines 204-244)
ClassifierMatches(type, nameWithoutExt) ==
  \E i \in DOMAIN basePatterns(type) :
    LET pattern == basePatterns(type)[i]
    IN \/ nameWithoutExt = pattern
       \/ includes(nameWithoutExt, pattern)
       \/ endsWith(nameWithoutExt, <<"_">> \o pattern)
       \/ endsWith(nameWithoutExt, <<"-">> \o pattern)

\* Object.entries(basePatterns).forEach(...): the callback runs for every
\* channel; its `return` leaves only the callback of that one channel.
classifyEntry(tm, es, idx) ==
  LET fileName == LastPart(es[idx], "/")
      lowerName == toLowerCase(fileName)
      ext == LastPart(lowerName, ".")
      nameWithoutExt == RemoveFirst(lowerName, <<".">> \o ext)
  IN IF ext \notin ImageExtensions THEN tm
     ELSE [k \in TextureKeys |->
             IF /\ k \in Range(ChannelOrder)
                /\ tm[k] = 0
                /\ ClassifierMatches(k, nameWithoutExt)
             THEN idx ELSE tm[k]]

ClassifyEntry ==
  /\ zipVariant = "classifier"
  /\ zpc = "classify"
  /\ zcursor <= Len(entries)
  /\ textureMap' = classifyEntry(textureMap, entries, zcursor)
  /\ zcursor' = zcursor + 1
  /\ zpc' = IF zcursor = Len(entries)
            THEN (IF ModelEntry(entries) = 0 THEN "error" ELSE "done")
            ELSE "classify"
  /\ modelFileEntry' = IF zcursor = Len(entries) THEN ModelEntry(entries) ELSE 0
  /\ UNCHANGED <<zipVariant, entries>>
  /\ UNCHANGED <<matVars, resolverVars, uploadVars, gifVars>>

\* ---- second handleZipFile: model search, then processTextureFiles
FindModel ==
  /\ zipVariant = "folders"
  /\ zpc = "findModel"
  /\ zpc' = IF ModelEntry(entries) = 0 THEN "error"
            ELSE IF ModelTypeOf(entries) = <<"g", "l", "t", "f">> THEN "done"
            ELSE "texturesFolder"
  /\ modelFileEntry' = ModelEntry(entries)
  /\ UNCHANGED <<zipVariant, entries, textureMap, zcursor>>
  /\ UNCHANGED <<matVars, resolverVars, uploadVars, gifVars>>

BranchMatches(branch, nameWithoutExt) ==
  \E i \in DOMAIN branchPatterns(branch) : includes(nameWithoutExt, branchPatterns(branch)[i])

\* fileName.replace(/\.(jpg|jpeg|png|bmp|tga|gif)$/i, '')
StripTextureExtension(fileName) ==
  IF \E e \in TextureExtensions : endsWith(toLowerCase(fileName), <<".">> \o e)
  THEN LET e == CHOOSE e \in TextureExtensions : endsWith(toLowerCase(fileName), <<".">> \o e)
       IN Sub(fileName, 1, Len(fileName) - Len(e) - 1)
  ELSE fileName

processTextureFile(tm, es, idx, modelType) ==
  LET fileName == toLowerCase(LastPart(es[idx], "/"))
      ext == LastPart(fileName, ".")
      nameWithoutExt == toLowerCase(StripTextureExtension(fileName))
      hits == {i \in DOMAIN BranchOrder : BranchMatches(BranchOrder[i], nameWithoutExt)}
      isFbx == modelType = <<"f", "b", "x">>
  IN IF ext \notin TextureExtensions THEN tm
     ELSE IF hits # {}
          THEN LET first == CHOOSE i \in hits : \A j \in hits : i <= j
               IN [tm EXCEPT ![BranchOrder[first]] = idx]
     ELSE IF tm["diffuse"] = 0 /\ modelType # <<"g", "l", "t", "f">>
          THEN IF \/ isFbx
                  \/ /\ ~includes(nameWithoutExt, <<"n", "o", "r", "m", "a", "l">>)
                     /\ ~includes(nameWithoutExt, <<"r", "o", "u", "g", "h">>)
                     /\ ~includes(nameWithoutExt, <<"m", "e", "t", "a", "l">>)
               THEN [tm EXCEPT !["diffuse"] = idx]
               ELSE tm
     ELSE IF isFbx /\ \A k \in TextureKeys : tm[k] = 0
          THEN [tm EXCEPT !["diffuse"] = idx]
     ELSE tm

\* zipContent.folder(name) shares the archive's whole `files` object, so each
\* processTextureFiles call walks every entry of the archive; the source
\* folder pass runs only while no texture was classified.
ProcessTextureFile ==
  /\ zipVariant = "folders"
  /\ zpc \in {"texturesFolder", "sourceFolder"}
  /\ zcursor <= Len(entries)
  /\ textureMap' = processTextureFile(textureMap, entries, zcursor, ModelTypeOf(entries))
  /\ IF zcursor < Len(entries)
     THEN zcursor' = zcursor + 1 /\ zpc' = zpc
     ELSE /\ zcursor' = 1
          /\ zpc' = IF zpc = "texturesFolder" /\ \A k \in TextureKeys : textureMap'[k] = 0
                    THEN "sourceFolder" ELSE "done"
  /\ UNCHANGED <<zipVariant, entries, modelFileEntry>>
  /\ UNCHANGED <<matVars, resolverVars, uploadVars, gifVars>>

NextZip ==
  \/ ClassifyEntry
  \/ FindModel
  \/ ProcessTextureFile

SpecZip == InitZip /\ [][NextZip]_vars

(***************************************************************************)
(* Texture classification claims                                           *)
(***************************************************************************)
\* C6: a channel of the texture slot map is assigned at most once: once it
\* holds a file, no later file changes it.
C6_ChannelAssignedOnce ==
  [][\A k \in TextureKeys : textureMap[k] # 0 => textureMap'[k] = textureMap[k]]_vars

\* C7: each image file is claimed by at most one channel.
C7_OneChannelPerFile ==
  \A i \in DOMAIN entries : Cardinality({k \in TextureKeys : textureMap[k] = i}) <= 1

\* A model file directly at the archive root / inside the source/ folder
IsRootModel(i) ==
  ExtensionOf(entries[i]) \in ModelExtensions /\ ~includes(entries[i], <<"/">>)

IsSourceModel(i) ==
  /\ ExtensionOf(entries[i]) \in ModelExtensions
  /\ startsWith(entries[i], <<"s", "o", "u", "r", "c", "e", "/">>)

\* C18: once the model search of a zip upload has chosen a file, the file is
\* at the archive root whenever the root holds a model file, and otherwise
\* inside source/ whenever source/ holds one, whatever the entry order.
C18_RootModelPreferred ==
  modelFileEntry # 0 =>
    /\ (\E i \in DOMAIN entries : IsRootModel(i)) => IsRootModel(modelFileEntry)
    /\ ( /\ ~\E i \in DOMAIN entries : IsRootModel(i)
         /\ \E i \in DOMAIN entries : IsSourceModel(i) ) => IsSourceModel(modelFileEntry)

\* Whether entry i is an image the running handleZipFile looks at, and
\* whether its name matches the patterns of channel k there
IsImage(i) ==
  LET ext == LastPart(toLowerCase(LastPart(entries[i], "/")), ".")
  IN IF zipVariant = "classifier" THEN ext \in ImageExtensions ELSE ext \in TextureExtensions

MatchesChannel(i, k) ==
  LET lowerName == toLowerCase(LastPart(entries[i], "/"))
  IN IF zipVariant = "classifier"
     THEN /\ k \in Range(ChannelOrder)
          /\ ClassifierMatches(k, RemoveFirst(lowerName, <<".">> \o LastPart(lowerName, ".")))
     ELSE /\ k \in Range(BranchOrder)
          /\ BranchMatches(k, toLowerCase(StripTextureExtension(lowerName)))

Unclassified == {i \in DOMAIN entries : IsImage(i) /\ \A k \in TextureKeys : ~MatchesChannel(i, k)}

\* C19: when handleZipFile is through and no image matched the diffuse
\* channel, diffuse holds a file exactly when the model is not GLTF/GLB and
\* exactly one unclassified image exists, and then it holds that image.
C19_SingleImageFallback ==
  ( /\ zpc = "done"
    /\ \A i \in DOMAIN entries : IsImage(i) => ~MatchesChannel(i, "diffuse") ) =>
      /\ textureMap["diffuse"] # 0 <=>
           /\ Cardinality(Unclassified) = 1
           /\ ModelTypeOf(entries) \notin {<<"g", "l", "t", "f">>, <<"g", "l", "b">>}
      /\ textureMap["diffuse"] # 0 => textureMap["diffuse"] \in Unclassified

\* The orders in which the extraction promises of an archive can push its
\* entries onto `files`
CompletionOrders(es) ==
  {p \in [DOMAIN es -> DOMAIN es] : \A i, j \in DOMAIN es : p[i] = p[j] => i = j}

Reordered(es, p) == [i \in DOMAIN es |-> es[p[i]]]

\* The classification loop run over all of `files` from entry idx on
RECURSIVE classifyAll(_, _, _)
classifyAll(tm, es, idx) ==
  IF idx > Len(es) THEN tm ELSE classifyAll(classifyEntry(tm, es, idx), es, idx + 1)

\* The slot map by file: which path each channel holds (<<>>: none)
SlotPaths(tm, es) == [k \in TextureKeys |-> IF tm[k] = 0 THEN <<>> ELSE es[tm[k]]]

\* C25: the slot map and the model file the first handleZipFile ends with are
\* the ones it ends with for every other order in which the extraction
\* promises of the same entries can complete.
C25_CompletionOrderIrrelevant ==
  (zipVariant = "classifier" /\ zpc = "done") =>
    \A p \in CompletionOrders(entries) :
      LET other == Reordered(entries, p)
      IN /\ SlotPaths(classifyAll([k \in TextureKeys |-> 0], other, 1), other)
              = SlotPaths(textureMap, entries)
         /\ other[ModelEntry(other)] = entries[modelFileEntry]

(***************************************************************************)
(* FileLoader (lib/fileLoader.ts)                                          *)
(***************************************************************************)
UpperTable == [c \in Range(LowerCase) |-> UpperCase[CHOOSE i \in DOMAIN LowerCase : LowerCase[i] = c]]
LowerLetters == Range(LowerCase)

UpperChar(c) == IF c \in LowerLetters THEN UpperTable[c] ELSE c

toUpperCase(str) == [i \in DOMAIN str |-> UpperChar(str[i])]

\* str.split(sep): the parts between the separators, empty parts included
RECURSIVE split(_, _)
split(str, sep) ==
  LET i == indexOf(str, <<sep>>)
  IN IF i = 0 THEN <<str>>
     ELSE <<Sub(str, 1, i - 1)>> \o split(Sub(str, i + 1, Len(str)), sep)

\* parts.join(sep)
RECURSIVE join(_, _)
join(parts, sep) ==
  IF parts = <<>> THEN <<>>
  ELSE IF Len(parts) = 1 THEN parts[1]
  ELSE parts[1] \o <<sep>> \o join(Tail(parts), sep)

Digits == <<"0", "1", "2", "3", "4", "5", "6", "7", "8", "9">>

\* URL.createObjectURL(blob): one fresh blob: URL per file
BlobUrl(i) == <<"b", "l", "o", "b", ":">> \o <<Digits[i + 1]>>

\* null / undefined: no string
Null == <<"null">>

\* Map.has / Map.get / Map.set with the Map's insertion order
MapHas(m, k) == \E i \in DOMAIN m : m[i][1] = k
MapGet(m, k) == IF MapHas(m, k) THEN m[CHOOSE i \in DOMAIN m : m[i][1] = k][2] ELSE Null
MapSet(m, k, v) ==
  IF MapHas(m, k)
  THEN [i \in DOMAIN m |-> IF m[i][1] = k THEN <<k, v>> ELSE m[i]]
  ELSE Append(m, <<k, v>>)

\* The inner loop of findRootPath: root cut at the first differing part
cutRoot(root, parts) ==
  LET n == IF Len(root) < Len(parts) THEN Len(root) ELSE Len(parts)
      diff == {j \in 1..n : root[j] # parts[j]}
  IN IF diff = {} THEN root
     ELSE SubSeq(root, 1, (CHOOSE j \in diff : \A k \in diff : j <= k) - 1)

RECURSIVE foldRoot(_, _, _)
foldRoot(root, paths, i) ==
  IF i > Len(paths) THEN root
  ELSE foldRoot(cutRoot(root, split(paths[i], "/")), paths, i + 1)

findRootPath(paths) ==
  IF Len(paths) = 0 THEN <<>>
  ELSE LET root == foldRoot(split(paths[1], "/"), paths, 2)
       IN IF Len(root) > 0 THEN join(root, "/") \o <<"/">> ELSE <<>>

getRelativePath(root, fullPath) ==
  IF startsWith(fullPath, root) THEN Sub(fullPath, Len(root) + 1, Len(fullPath))
  ELSE fullPath

\* path.split('/').pop()?.split('\\').pop()?.toLowerCase()
bareFilenameCaseKept(path) == LastPart(LastPart(path, "/"), "\\")

bareFilename(path) == toLowerCase(LastPart(LastPart(path, "/"), "\\"))

RECURSIVE setAll(_, _, _)
setAll(m, keys, url) ==
  IF keys = <<>> THEN m ELSE setAll(MapSet(m, Head(keys), url), Tail(keys), url)

\* One turn of the constructor's loop over files
pathVariations(root, path) ==
  LET relativePath == getRelativePath(root, path)
  IN << relativePath,
        toLowerCase(relativePath),
        path,
        toLowerCase(path),
        SlashNormalize(path),
        toLowerCase(SlashNormalize(path)) >>

RECURSIVE registerFiles(_, _, _, _, _)
registerFiles(fm, nm, root, fs, i) ==
  IF i > Len(fs) THEN <<fm, nm>>
  ELSE LET filename == bareFilename(getRelativePath(root, fs[i]))
       IN registerFiles(setAll(fm, pathVariations(root, fs[i]), BlobUrl(i)),
                        IF filename # <<>> THEN MapSet(nm, filename, BlobUrl(i)) ELSE nm,
                        root, fs, i + 1)

\* The first of the keys that the map holds, Null when it holds none
RECURSIVE firstHit(_, _)
firstHit(m, keys) ==
  IF keys = <<>> THEN Null
  ELSE IF MapHas(m, Head(keys)) THEN MapGet(m, Head(keys))
  ELSE firstHit(m, Tail(keys))

\* s.split(sep).pop() || s
LastPartOr(str, sep) == IF LastPart(str, sep) = <<>> THEN str ELSE LastPart(str, sep)

getFileUrl(filePath) ==
  LET normalizedPath == toLowerCase(SlashNormalize(filePath))
      filename == LastPart(normalizedPath, "/")
  IN IF MapHas(fileMap, normalizedPath) THEN MapGet(fileMap, normalizedPath)
     ELSE IF filename # <<>> /\ MapHas(filenameMap, filename) THEN MapGet(filenameMap, filename)
     ELSE Null

AssetFolderWords == <<<<"t", "e", "x", "t", "u", "r", "e">>,
                      <<"t", "e", "x", "t", "u", "r", "e", "s">>,
                      <<"i", "m", "a", "g", "e", "s">>,
                      <<"i", "m", "a", "g", "e">>,
                      <<"a", "s", "s", "e", "t", "s">>,
                      <<"a", "s", "s", "e", "t">>,
                      <<"m", "a", "t", "e", "r", "i", "a", "l", "s">>,
                      <<"m", "a", "t", "e", "r", "i", "a", "l">>,
                      <<"m", "a", "p", "s">>,
                      <<"m", "a", "p">>>>

\* The `patterns` array of getFileBuffer's loop over fileMap, as patterns.some(Boolean)
pathPatternMatches(path, filename) ==
  LET pathLower == toLowerCase(path)
      filenameLower == toLowerCase(filename)
  IN \/ pathLower = filenameLower
     \/ endsWith(pathLower, <<"/">> \o filenameLower)
     \/ endsWith(pathLower, <<"\\">> \o filenameLower)
     \/ \E w \in DOMAIN AssetFolderWords :
          includes(pathLower, AssetFolderWords[w]) /\ endsWith(pathLower, filenameLower)
     \/ includes(pathLower, FirstPart(filenameLower, "."))

getFileBuffer(filePath) ==
  LET variations == << filePath,
                       toLowerCase(filePath),
                       SlashNormalize(filePath),
                       toLowerCase(SlashNormalize(filePath)),
                       LastPartOr(filePath, "/"),
                       LastPartOr(filePath, "\\") >>
      filename == bareFilename(filePath)
      filenameVariations == << filename,
                               RemoveChars(filename, {"-", "_"}),
                               RemoveChars(filename, Range(Digits)),
                               FirstPart(filename, ".") >>
      matching == {i \in DOMAIN fileMap : pathPatternMatches(fileMap[i][1], filename)}
  IN IF firstHit(fileMap, variations) # Null THEN firstHit(fileMap, variations)
     ELSE IF filename = <<>> THEN Null
     ELSE IF MapHas(filenameMap, filename) THEN MapGet(filenameMap, filename)
     ELSE IF firstHit(filenameMap, filenameVariations) # Null
          THEN firstHit(filenameMap, filenameVariations)
     ELSE IF matching # {}
          THEN fileMap[CHOOSE i \in matching : \A j \in matching : i <= j][2]
     ELSE Null

\* The stack loop of resolveUrl: '..' pops, '.' and '' are dropped
RECURSIVE pathStack(_, _)
pathStack(parts, stack) ==
  IF parts = <<>> THEN stack
  ELSE LET part == Head(parts)
       IN pathStack(Tail(parts),
                    IF part = <<".", ".">>
                    THEN (IF stack = <<>> THEN stack ELSE SubSeq(stack, 1, Len(stack) - 1))
                    ELSE IF part # <<".">> /\ part # <<>> THEN Append(stack, part)
                    ELSE stack)

resolveUrl(basePath, relativePath) ==
  LET baseDir == Sub(basePath, 1, lastIndexOf(basePath, <<"/">>))
      stack == pathStack(split(baseDir \o relativePath, "/"), <<>>)
      normalizedPath == toLowerCase(join(stack, "/"))
      filename == IF stack = <<>> THEN Null ELSE stack[Len(stack)]
      legacy == {i \in DOMAIN fileMap :
                   \/ fileMap[i][1] = filename
                   \/ /\ filename # Null
                      /\ endsWith(fileMap[i][1], <<"/">> \o filename)}
  IN IF \/ startsWith(relativePath, <<"h", "t", "t", "p">>)
        \/ startsWith(relativePath, <<"b", "l", "o", "b", ":">>)
        \/ startsWith(relativePath, <<"d", "a", "t", "a", ":">>)
     THEN relativePath
     ELSE IF MapHas(fileMap, normalizedPath) THEN MapGet(fileMap, normalizedPath)
     ELSE IF MapHas(filenameMap, filename) THEN MapGet(filenameMap, filename)
     ELSE IF legacy # {} THEN fileMap[CHOOSE i \in legacy : \A j \in legacy : i <= j][2]
     ELSE Null

(***************************************************************************)
(* The loading manager's URL modifier                                      *)
(***************************************************************************)
\* modelData.url and modelData.internalPath as handleZipFile returns them
ModelUrl == IF ModelEntry(files) = 0 THEN Null ELSE BlobUrl(ModelEntry(files))
InternalPath == IF ModelEntry(files) = 0 THEN <<>> ELSE toLowerCase(files[ModelEntry(files)])

\* requestedUrl.endsWith('.bin'): retry with the bare filename
binRetry(requestedUrl) ==
  IF endsWith(requestedUrl, <<".", "b", "i", "n">>)
  THEN getFileBuffer(LastPartOr(requestedUrl, "/"))
  ELSE Null

internalPathRetry(requestedUrl) ==
  IF InternalPath # <<>> THEN resolveUrl(InternalPath, requestedUrl) ELSE Null

RECURSIVE firstResolved(_)
firstResolved(patterns) ==
  IF patterns = <<>> THEN Null
  ELSE IF Head(patterns) # <<>> /\ getFileBuffer(Head(patterns)) # Null
       THEN getFileBuffer(Head(patterns))
  ELSE firstResolved(Tail(patterns))

\* [url.split('/').pop(), url.replace(/^.*\//, ''), url.toLowerCase()].filter(Boolean)
patternRetry(requestedUrl) ==
  firstResolved(<< LastPart(requestedUrl, "/"),
                   LastPart(requestedUrl, "/"),
                   toLowerCase(requestedUrl) >>)

\* A modifier without the final `return requestedUrl`
urlModifierWithoutFallback(requestedUrl) ==
  IF requestedUrl = ModelUrl THEN requestedUrl ELSE getFileBuffer(requestedUrl)

LoadedModelURLModifier(requestedUrl) ==
  IF requestedUrl = ModelUrl THEN requestedUrl
  ELSE IF getFileBuffer(requestedUrl) # Null THEN getFileBuffer(requestedUrl)
  ELSE IF binRetry(requestedUrl) # Null THEN binRetry(requestedUrl)
  ELSE IF internalPathRetry(requestedUrl) # Null THEN internalPathRetry(requestedUrl)
  ELSE IF /\ \/ includes(requestedUrl, <<"t", "e", "x", "t", "u", "r", "e">>)
             \/ includes(requestedUrl, <<"i", "m", "a", "g", "e">>)
             \/ includes(requestedUrl, <<"a", "s", "s", "e", "t">>)
          /\ patternRetry(requestedUrl) # Null
       THEN patternRetry(requestedUrl)
  ELSE requestedUrl

ModelLoaderURLModifier(requestedUrl) ==
  IF requestedUrl = ModelUrl THEN requestedUrl
  ELSE IF getFileBuffer(requestedUrl) # Null THEN getFileBuffer(requestedUrl)
  ELSE IF binRetry(requestedUrl) # Null THEN binRetry(requestedUrl)
  ELSE IF internalPathRetry(requestedUrl) # Null THEN internalPathRetry(requestedUrl)
  ELSE IF patternRetry(requestedUrl) # Null THEN patternRetry(requestedUrl)
  ELSE requestedUrl

(***************************************************************************)
(* Bundles and requests                                                    *)
(***************************************************************************)
\* Paths as the first handleZipFile registers them: lower-cased entry names
FilePool == {<<"p", "a", "c", "k", "/", "m", "o", "d", "e", "l", ".", "g", "l", "t", "f">>,
             <<"p", "a", "c", "k", "/", "w", "o", "o", "d", ".", "m", "t", "l">>,
             <<"p", "a", "c", "k", "/", "p", "a", "c", "k", "/", "w", "o", "o", "d", ".", "m", "t", "l">>,
             <<"p", "a", "c", "k", "/", "t", "e", "x", "t", "u", "r", "e", "s", "/", "w", "o", "o", "d", ".", "p", "n", "g">>,
             <<"p", "a", "c", "k", "/", "o", "l", "d", "/", "w", "o", "o", "d", ".", "p", "n", "g">>,
             <<"p", "a", "c", "k", "/", "s", "c", "e", "n", "e", ".", "b", "i", "n">>,
             <<"m", "a", "p", "s", "\\", "b", "a", "r", "k", ".", "p", "n", "g">>}

RECURSIVE FileSeqs(_)
FileSeqs(n) ==
  IF n = 0 THEN {<<>>}
  ELSE LET shorter == FileSeqs(n - 1)
       IN shorter \cup
          {Append(q, e) : q \in {x \in shorter : Len(x) = n - 1},
                          e \in {y \in FilePool : TRUE}}

Capitalised(str) == [i \in DOMAIN str |-> IF i = 1 THEN UpperChar(str[i]) ELSE str[i]]
AlternatingCase(str) ==
  [i \in DOMAIN str |-> IF i % 2 = 0 THEN UpperChar(str[i]) ELSE LowerChar(str[i])]

CaseVariations(str) ==
  {str, toUpperCase(str), Capitalised(str), AlternatingCase(str)}

RelativePathOf(i) == getRelativePath(rootPath, files[i])
BareNameOf(i) == LastPart(LastPart(RelativePathOf(i), "/"), "\\")

\* The ways file i is asked for: by relative path, by bare filename, in any case
LookupsOf(i) == CaseVariations(RelativePathOf(i)) \cup CaseVariations(BareNameOf(i))

\* References that name no file of any bundle, and an absolute URL
ForeignRequests == {<<"m", "i", "s", "s", "i", "n", "g", ".", "p", "n", "g">>,
                    <<"w", "o", "o", "d", ".", "j", "p", "g">>,
                    <<"t", "e", "x", "t", "u", "r", "e", "s", "/", "m", "i", "s", "s", "i", "n", "g", ".", "p", "n", "g">>,
                    <<"b", "u", "f", "f", "e", "r", "s", "/", "m", "e", "s", "h", ".", "b", "i", "n">>,
                    <<"h", "t", "t", "p", ":", "/", "/", "h", "/", "q", ".", "p", "n", "g">>}

Requests ==
  UNION {LookupsOf(i) : i \in DOMAIN files} \cup Range(files) \cup ForeignRequests
    \cup (IF ModelEntry(files) = 0 THEN {} ELSE {ModelUrl})

InitResolver ==
  /\ files \in {fs \in FileSeqs(MaxFiles) : fs # <<>> /\ DistinctEntries(fs)}
  /\ rootPath = <<>>
  /\ fileMap = <<>>
  /\ filenameMap = <<>>
  /\ rpc = "construct"
  /\ op = "none"
  /\ request = <<>>
  /\ result = <<>>
  /\ MaterialIdle
  /\ ZipIdle
  /\ UploadIdle
  /\ GifIdle

\* new FileLoader(files)
NewFileLoader ==
  /\ rpc = "construct"
  /\ LET root == findRootPath(files)
         maps == registerFiles(<<>>, <<>>, root, files, 1)
     IN /\ rootPath' = root
        /\ fileMap' = maps[1]
        /\ filenameMap' = maps[2]
  /\ rpc' = "ready"
  /\ UNCHANGED <<files, op, request, result>>
  /\ UNCHANGED <<matVars, zipVars, uploadVars, gifVars>>

\* The lookups read the maps and change nothing: every run makes one, which
\* stands for each lookup of a longer series.
Lookup(name, answer) ==
  /\ rpc = "ready"
  /\ op = "none"
  /\ op' = name
  /\ request' = answer[1]
  /\ result' = answer[2]
  /\ UNCHANGED <<files, rootPath, fileMap, filenameMap, rpc>>
  /\ UNCHANGED <<matVars, zipVars, uploadVars, gifVars>>

GetFileBuffer == \E q \in Requests : Lookup("getFileBuffer", <<q, getFileBuffer(q)>>)

GetFileUrl == \E q \in Requests : Lookup("getFileUrl", <<q, getFileUrl(q)>>)

ResolveUrl ==
  /\ ModelEntry(files) # 0
  /\ \E q \in Requests : Lookup("resolveUrl", <<q, resolveUrl(InternalPath, q)>>)

LoadedModelModify ==
  /\ ModelEntry(files) # 0
  /\ \E q \in Requests : Lookup("LoadedModel.urlModifier", <<q, LoadedModelURLModifier(q)>>)

ModelLoaderModify ==
  /\ ModelEntry(files) # 0
  /\ \E q \in Requests : Lookup("ModelLoader.urlModifier", <<q, ModelLoaderURLModifier(q)>>)

NextResolver ==
  \/ NewFileLoader
  \/ GetFileBuffer
  \/ GetFileUrl
  \/ ResolveUrl
  \/ LoadedModelModify
  \/ ModelLoaderModify

SpecResolver == InitResolver /\ [][NextResolver]_vars

(***************************************************************************)
(* Resolution claims                                                       *)
(***************************************************************************)
UniqueBareName(i) ==
  \A j \in DOMAIN files : j # i => BareNameOf(j) # BareNameOf(i)

\* C8: when exactly one registered file has a given bare filename, getFileBuffer
\* asked for it by its exact relative path, by its bare filename, or by any
\* upper/lower-case variation of either returns that file's URL.
C8_LookupRoundTrip ==
  (rpc = "ready" /\ op = "getFileBuffer") =>
    \A i \in DOMAIN files :
      (UniqueBareName(i) /\ request \in LookupsOf(i)) => result = BlobUrl(i)

\* A file in a sub-folder, registered after another file whose path holds the
\* same word, asked for by its upper-cased bare filename
C8_Witness ==
  /\ rpc = "ready"
  /\ op = "getFileBuffer"
  /\ \E i \in DOMAIN files :
       /\ UniqueBareName(i)
       /\ i > 1
       /\ RelativePathOf(i) # BareNameOf(i)
       /\ request = toUpperCase(BareNameOf(i))
       /\ request # BareNameOf(i)
       /\ result = BlobUrl(i)

\* No lookup strategy of the URL modifier resolves the reference
NothingResolves(requestedUrl) ==
  /\ requestedUrl # ModelUrl
  /\ getFileBuffer(requestedUrl) = Null
  /\ binRetry(requestedUrl) = Null
  /\ internalPathRetry(requestedUrl) = Null
  /\ patternRetry(requestedUrl) = Null

ModifierOps == {"LoadedModel.urlModifier", "ModelLoader.urlModifier"}

\* C9: a reference that no lookup strategy resolves comes back from the URL
\* modifier exactly as it was requested (a string, never null or an error).
C9_UnresolvedReturnedUnchanged ==
  (op \in ModifierOps /\ NothingResolves(request)) => result = request

C9_Witness ==
  /\ op \in ModifierOps
  /\ NothingResolves(request)
  /\ endsWith(request, <<".", "b", "i", "n">>)
  /\ Len(files) > 1
  /\ result = request

\* C20: getFileBuffer asked for exactly the relative path, or the full
\* archive path, of a registered file returns that file's URL, whatever
\* other files are registered.
C20_ExactPathWins ==
  (rpc = "ready" /\ op = "getFileBuffer") =>
    \A i \in DOMAIN files :
      (request = RelativePathOf(i) \/ request = files[i]) => result = BlobUrl(i)

\* The directory part of a path: everything up to and including its last '/'
DirOf(path) == Sub(path, 1, lastIndexOf(path, <<"/">>))

\* C21: the root path computed at registration is a prefix of the directory
\* part of every registered path: a prefix of every path that never takes in
\* a file's own name.
C21_RootIsCommonDirectory ==
  rpc = "ready" => \A i \in DOMAIN files : startsWith(DirOf(files[i]), rootPath)

\* What the exact-path and bare-filename steps of getFileBuffer find for a
\* request, Null when both miss and the later steps decide
DirectLookup(filePath) ==
  LET variations == << filePath,
                       toLowerCase(filePath),
                       SlashNormalize(filePath),
                       toLowerCase(SlashNormalize(filePath)),
                       LastPartOr(filePath, "/"),
                       LastPartOr(filePath, "\\") >>
  IN IF firstHit(fileMap, variations) # Null THEN firstHit(fileMap, variations)
     ELSE MapGet(filenameMap, bareFilename(filePath))

\* C22: a URL that getFileBuffer finds only in its filename-variation and
\* path-pattern steps belongs to a file whose path ends with the requested
\* filename, case-insensitively.
C22_FuzzyMatchEndsWithName ==
  (rpc = "ready" /\ op = "getFileBuffer" /\ result # Null /\ DirectLookup(request) = Null) =>
    \E i \in DOMAIN files :
      /\ result = BlobUrl(i)
      /\ endsWith(toLowerCase(files[i]), bareFilename(request))

(***************************************************************************)
(* The material library of an OBJ archive (first handleZipFile)            *)
(***************************************************************************)
\* availablePaths.find(pred): the first path that satisfies pred, Null: none
FirstPath(availablePaths, hits) ==
  IF hits = {} THEN Null
  ELSE availablePaths[CHOOSE i \in hits : \A j \in hits : i <= j]

findFile(filePath, availablePaths) ==
  LET normalizedFilePath == SlashNormalize(filePath)
      fileName == toLowerCase(LastPart(normalizedFilePath, "/"))
      fullPathMatch == {i \in DOMAIN availablePaths :
                          endsWith(toLowerCase(availablePaths[i]), toLowerCase(normalizedFilePath))}
      inFolder == {i \in DOMAIN availablePaths :
                     endsWith(toLowerCase(availablePaths[i]), <<"/">> \o fileName)}
      same == {i \in DOMAIN availablePaths : toLowerCase(availablePaths[i]) = fileName}
  IN IF fileName = <<>> THEN Null
     ELSE IF fullPathMatch # {} THEN FirstPath(availablePaths, fullPathMatch)
     ELSE IF inFolder # {} THEN FirstPath(availablePaths, inFolder)
     ELSE FirstPath(availablePaths, same)

\* Lower-cased entry names of OBJ archives
MtlPool == {<<"p", "a", "c", "k", "/", "m", "o", "d", "e", "l", ".", "o", "b", "j">>,
            <<"p", "a", "c", "k", "/", "w", "o", "o", "d", ".", "m", "t", "l">>,
            <<"p", "a", "c", "k", "/", "r", "e", "d", "w", "o", "o", "d", ".", "m", "t", "l">>,
            <<"p", "a", "c", "k", "/", "o", "l", "d", "/", "w", "o", "o", "d", ".", "m", "t", "l">>,
            <<"p", "a", "c", "k", "/", "s", "t", "o", "n", "e", ".", "m", "t", "l">>,
            <<"p", "a", "c", "k", "/", "t", "e", "x", "t", "u", "r", "e", "s", "/", "w", "o", "o", "d", ".", "p", "n", "g">>}

\* What follows `mtllib` in the OBJ text
MtlReferences == {<<"w", "o", "o", "d", ".", "m", "t", "l">>,
                  <<"W", "o", "o", "d", ".", "M", "T", "L">>,
                  <<"o", "l", "d", "/", "w", "o", "o", "d", ".", "m", "t", "l">>,
                  <<".", "/", "s", "t", "o", "n", "e", ".", "m", "t", "l">>,
                  <<"m", "i", "s", "s", "i", "n", "g", ".", "m", "t", "l">>}

RECURSIVE MtlSeqs(_)
MtlSeqs(n) ==
  IF n = 0 THEN {<<>>}
  ELSE LET shorter == MtlSeqs(n - 1)
       IN shorter \cup
          {Append(q, e) : q \in {x \in shorter : Len(x) = n - 1}, e \in MtlPool}

InitMtl ==
  /\ files \in {fs \in MtlSeqs(MaxFiles) : fs # <<>> /\ DistinctEntries(fs)}
  /\ rootPath = <<>>
  /\ fileMap = <<>>
  /\ filenameMap = <<>>
  /\ rpc = "construct"
  /\ op = "none"
  /\ request = <<>>
  /\ result = <<>>
  /\ MaterialIdle
  /\ ZipIdle
  /\ UploadIdle
  /\ GifIdle

\* modelType === 'obj' && text.match(/^mtllib\s+(.+)/m): mtlPath = findFile(...)
FindMtl ==
  /\ ModelTypeOf(files) = <<"o", "b", "j">>
  /\ \E q \in MtlReferences : Lookup("findFile", <<q, findFile(q, files)>>)

NextMtl ==
  \/ NewFileLoader
  \/ FindMtl

SpecMtl == InitMtl /\ [][NextMtl]_vars

\* C23: the file recorded as mtlPath for a reference is the file the
\* resolver's getFileUrl returns for it, its bare filename is the referenced
\* filename up to case, and mtlPath is unset when the resolver finds none.
C23_MtlPathIsResolvedFile ==
  op = "findFile" =>
    IF getFileUrl(request) = Null THEN result = Null
    ELSE \E i \in DOMAIN files :
           /\ result = files[i]
           /\ getFileUrl(request) = BlobUrl(i)
           /\ bareFilename(files[i]) = bareFilename(request)

(***************************************************************************)
(* Uploads (FileUpload.processFile) and the viewer's load (LoadedModel)    *)
(***************************************************************************)
\* What the user drops: an archive with an OBJ and its MTL, an archive with
\* images only, a GLB, a text file
UploadKinds == {"zip", "emptyzip", "glb", "txt"}

rejectionMessageSame(kind) == "Failed to load model"

\* The message of the error handleFileUpload throws for such a file
rejectionMessage(kind) ==
  IF kind = "emptyzip" THEN "No supported 3D model found in the ZIP file."
  ELSE "Unsupported file format: " \o kind

SupportedKinds == {"zip", "glb"}

InFlight == {"mtl", "parse"}

InitUpload ==
  /\ uploads = <<>>
  /\ isLoading = FALSE
  /\ modelData = 0
  /\ effectRan = 0
  /\ loads = <<>>
  /\ model = 0
  /\ allocated = {}
  /\ error = NoError
  /\ MaterialIdle
  /\ ZipIdle
  /\ ResolverIdle
  /\ GifIdle

\* React runs the pending effect of a committed render before the next event
\* or promise continuation is handled
EffectsFlushed == modelData = effectRan

\* processFile up to its await; the input is disabled while isLoading
ProcessFile ==
  /\ EffectsFlushed
  /\ ~isLoading
  /\ Len(uploads) < MaxUploads
  /\ \E kind \in UploadKinds :
       /\ uploads' = Append(uploads, [kind |-> kind, state |-> "handling"])
       /\ loads' = Append(loads, [state |-> "none", overlapped |-> {}])
  /\ isLoading' = TRUE
  /\ error' = NoError
  /\ UNCHANGED <<modelData, effectRan, model, allocated>>
  /\ UNCHANGED <<matVars, zipVars, resolverVars, gifVars>>

\* handleFileUpload resolved: onModelLoad(modelData), finally setIsLoading(false)
UploadAccepted ==
  /\ EffectsFlushed
  /\ \E k \in DOMAIN uploads :
       /\ uploads[k].state = "handling"
       /\ uploads[k].kind \in SupportedKinds
       /\ uploads' = [uploads EXCEPT ![k].state = "accepted"]
       /\ modelData' = k
       \* URL.createObjectURL for the file, or for each entry of the archive
       /\ allocated' = allocated \cup {[kind |-> "blob", upload |-> k]}
  /\ isLoading' = FALSE
  /\ UNCHANGED <<effectRan, loads, model, error>>
  /\ UNCHANGED <<matVars, zipVars, resolverVars, gifVars>>

\* handleFileUpload threw: setError(...), finally setIsLoading(false)
UploadRejected ==
  /\ EffectsFlushed
  /\ \E k \in DOMAIN uploads :
       /\ uploads[k].state = "handling"
       /\ uploads[k].kind \notin SupportedKinds
       /\ uploads' = [uploads EXCEPT ![k].state = "rejected"]
       /\ error' = [upload |-> k, message |-> rejectionMessage(uploads[k].kind)]
       \* the first handleZipFile made a blob URL per entry before it threw
       /\ allocated' = IF uploads[k].kind = "emptyzip"
                       THEN allocated \cup {[kind |-> "blob", upload |-> k]}
                       ELSE allocated
  /\ isLoading' = FALSE
  /\ UNCHANGED <<modelData, effectRan, loads, model>>
  /\ UNCHANGED <<matVars, zipVars, resolverVars, gifVars>>

\* useEffect(..., [modelData]): loadModel() starts for the new modelData and
\* runs to its first await; the effect returns no clean-up function.
RunEffect ==
  /\ modelData # 0
  /\ modelData # effectRan
  /\ effectRan' = modelData
  /\ loads' = [loads EXCEPT ![modelData] =
                 [state |-> IF uploads[modelData].kind = "zip" THEN "mtl" ELSE "parse",
                  overlapped |-> {j \in DOMAIN loads : loads[j].state \in InFlight}]]
  /\ UNCHANGED <<uploads, isLoading, modelData, model, allocated, error>>
  /\ UNCHANGED <<matVars, zipVars, resolverVars, gifVars>>

\* await new MTLLoader(manager).loadAsync(mtlUrl) settled: materials are set,
\* or the failure is logged; either way loader.loadAsync(url) is awaited next
MtlSettled ==
  /\ EffectsFlushed
  /\ \E k \in DOMAIN loads :
       /\ loads[k].state = "mtl"
       /\ loads' = [loads EXCEPT ![k].state = "parse"]
  /\ UNCHANGED <<uploads, isLoading, modelData, effectRan, model, allocated, error>>
  /\ UNCHANGED <<matVars, zipVars, resolverVars, gifVars>>

\* loader.loadAsync(url) resolved: centre, finalizeModel, setModel(loadedModel)
LoadResolved ==
  /\ EffectsFlushed
  /\ \E k \in DOMAIN loads :
       /\ loads[k].state = "parse"
       /\ loads' = [loads EXCEPT ![k].state = "resolved"]
       /\ model' = k
       \* the parsed scene's geometries and the textures finalizeModel loads
       /\ allocated' = allocated \cup {[kind |-> "scene", upload |-> k]}
  /\ UNCHANGED <<uploads, isLoading, modelData, effectRan, error>>
  /\ UNCHANGED <<matVars, zipVars, resolverVars, gifVars>>

\* loader.loadAsync(url) rejected: catch logs the error, nothing else changes
LoadRejected ==
  /\ EffectsFlushed
  /\ \E k \in DOMAIN loads :
       /\ loads[k].state = "parse"
       /\ loads' = [loads EXCEPT ![k].state = "failed"]
  /\ UNCHANGED <<uploads, isLoading, modelData, effectRan, model, allocated, error>>
  /\ UNCHANGED <<matVars, zipVars, resolverVars, gifVars>>

NextUpload ==
  \/ ProcessFile
  \/ UploadAccepted
  \/ UploadRejected
  \/ RunEffect
  \/ MtlSettled
  \/ LoadResolved
  \/ LoadRejected

SpecUpload == InitUpload /\ [][NextUpload]_vars

(***************************************************************************)
(* Upload claims                                                           *)
(***************************************************************************)
AllLoadsSettled ==
  /\ EffectsFlushed
  /\ \A k \in DOMAIN loads : loads[k].state \notin InFlight

\* C10: when a model is uploaded while an earlier model's load is still in
\* flight, then once the loads have settled (both resolved) the displayed
\* scene is the later model's, in whatever order the loads completed.
C10_LastUploadWins ==
  \A a, b \in DOMAIN loads :
    ( /\ a < b
      /\ b = modelData
      /\ a \in loads[b].overlapped
      /\ loads[a].state = "resolved"
      /\ loads[b].state = "resolved"
      /\ AllLoadsSettled ) => model = b

\* C11: a load result of a superseded upload is discarded: whenever setModel
\* installs a scene, it is the scene of the upload that modelData holds.
C11_StaleResultDiscarded ==
  [][model' # model => model' = modelData]_vars

\* C12: once the newest upload's scene is displayed, only resources of the
\* displayed upload are live: nothing created for a superseded upload remains.
C12_SupersededResourcesReleased ==
  (model # 0 /\ model = modelData /\ AllLoadsSettled) =>
    \A r \in allocated : r.upload = model

C17_LoadFailureSurfaced ==
  \A k \in DOMAIN loads :
    (loads[k].state = "failed" /\ k = modelData) =>
      (error.upload = k /\ error.message # "")

(***************************************************************************)
(* GIF recording (ModelViewer.startRecording, lib/gifRecorder.ts)          *)
(***************************************************************************)
\* The values the ControlPanel sliders allow: duration 1..10 in steps of 0.5
\* (kept doubled), fps 5..30 in steps of 5
SliderSettings == [duration2 : 2..20, fps : {5, 10, 15, 20, 25, 30}]

\* Math.max(24, Math.floor(settings.duration * settings.fps))
totalFramesOf(st) ==
  LET n == (st.duration2 * st.fps) \div 2
  IN IF n > 24 THEN n ELSE 24

\* Math.round(settings.duration * settings.fps), the 'Total Frames' figure
totalFramesShown(st) == (st.duration2 * st.fps + 1) \div 2

\* round(100 * k / n), halves rounded up
RoundPercent(k, n) == (200 * k + n) \div (2 * n)

\* The <<totalFrames, frameCount>> for which (frameCount / totalFrames) * 100
\* in IEEE-754 doubles comes out just below the half that 100 * k / n is
\* (57.49999999999999 for 23 / 40), among the frame counts of SliderSettings
FloatShortfall ==
  { <<40, 23>>, <<80, 46>>, <<120, 69>>, <<160, 92>>, <<240, 138>>,
    <<200, 29>>, <<200, 57>>, <<200, 113>>, <<200, 115>> }

\* Math.round((frameCount / totalFrames) * 100)
captureProgress(frameCount, totalFrames) ==
  IF <<totalFrames, frameCount>> \in FloatShortfall
  THEN RoundPercent(frameCount, totalFrames) - 1
  ELSE RoundPercent(frameCount, totalFrames)

generateButtonAlwaysShown == TRUE

\* {modelData && !isRecording && (<Button onClick={startRecording}>...)}
generateButtonShown == ~isRecording

NoFrame == [k |-> -1, at |-> 0]

InitGif ==
  /\ gifSettings \in SliderSettings
  /\ canvasWidth = 1
  /\ isRecording = FALSE
  /\ recordingProgress = 0
  /\ gifUrl = 0
  /\ recordings = <<>>
  /\ MaterialIdle
  /\ ZipIdle
  /\ ResolverIdle
  /\ UploadIdle

\* The user resizes or collapses the window: the canvas follows its container
ResizeCanvas ==
  /\ canvasWidth' = 1 - canvasWidth
  /\ UNCHANGED <<gifSettings, isRecording, recordingProgress, gifUrl, recordings>>
  /\ UNCHANGED <<matVars, zipVars, resolverVars, uploadVars>>

\* startRecording up to its first await
StartRecording ==
  /\ generateButtonShown
  /\ Len(recordings) < MaxRecordings
  /\ isRecording' = TRUE
  /\ recordingProgress' = 0
  /\ gifUrl' = 0
  /\ recordings' = Append(recordings,
                          [pc |-> "wait", totalFrames |-> 0, frameCount |-> 0,
                           frames |-> 0, renders |-> 0, lastFrame |-> NoFrame])
  /\ UNCHANGED <<gifSettings, canvasWidth>>
  /\ UNCHANGED <<matVars, zipVars, resolverVars, uploadVars>>

\* The 1000 ms wait is over: the test frame is drawn (drawImage throws on a
\* canvas without width: catch, finally), then recordGif is called
TestFrame ==
  /\ \E r \in DOMAIN recordings :
       /\ recordings[r].pc = "wait"
       /\ IF canvasWidth = 0
          THEN /\ recordings' = [recordings EXCEPT ![r].pc = "failed"]
               /\ isRecording' = FALSE
               /\ recordingProgress' = 0
          ELSE /\ recordings' = [recordings EXCEPT ![r].pc = "import"]
               /\ UNCHANGED <<isRecording, recordingProgress>>
  /\ UNCHANGED <<gifSettings, canvasWidth, gifUrl>>
  /\ UNCHANGED <<matVars, zipVars, resolverVars, uploadVars>>

\* import('gif.js') resolved: the encoder is made, totalFrames fixed and the
\* first captureFrame scheduled
ImportResolved ==
  /\ \E r \in DOMAIN recordings :
       /\ recordings[r].pc = "import"
       /\ recordings' = [recordings EXCEPT ![r].pc = "capture",
                                           ![r].totalFrames = totalFramesOf(gifSettings)]
  /\ UNCHANGED <<gifSettings, canvasWidth, isRecording, recordingProgress, gifUrl>>
  /\ UNCHANGED <<matVars, zipVars, resolverVars, uploadVars>>

\* import('gif.js') rejected: .catch(reject), startRecording's catch and finally
ImportRejected ==
  /\ \E r \in DOMAIN recordings :
       /\ recordings[r].pc = "import"
       /\ recordings' = [recordings EXCEPT ![r].pc = "failed"]
  /\ isRecording' = FALSE
  /\ recordingProgress' = 0
  /\ UNCHANGED <<gifSettings, canvasWidth, gifUrl>>
  /\ UNCHANGED <<matVars, zipVars, resolverVars, uploadVars>>

\* captureFrame with frames left, and its requestAnimationFrame callback:
\* the frame is added and counted, or drawImage throws and the same
\* captureFrame is scheduled again with nothing changed
CaptureFrame ==
  /\ \E r \in DOMAIN recordings :
       LET rec == recordings[r]
       IN /\ rec.pc = "capture"
          /\ rec.frameCount < rec.totalFrames
          /\ IF canvasWidth = 0
             THEN UNCHANGED <<recordings, recordingProgress>>
             ELSE /\ recordings' =
                       [recordings EXCEPT
                          ![r].frames = rec.frames + 1,
                          ![r].lastFrame = [k |-> rec.frameCount, at |-> recordingProgress],
                          ![r].frameCount = rec.frameCount + 1]
                  /\ recordingProgress' = captureProgress(rec.frameCount + 1, rec.totalFrames)
  /\ UNCHANGED <<gifSettings, canvasWidth, isRecording, gifUrl>>
  /\ UNCHANGED <<matVars, zipVars, resolverVars, uploadVars>>

\* captureFrame with frameCount >= totalFrames: gif.render()
Render ==
  /\ \E r \in DOMAIN recordings :
       /\ recordings[r].pc = "capture"
       /\ recordings[r].frameCount >= recordings[r].totalFrames
       /\ recordings' = [recordings EXCEPT ![r].pc = "render",
                                           ![r].renders = recordings[r].renders + 1]
  /\ UNCHANGED <<gifSettings, canvasWidth, isRecording, recordingProgress, gifUrl>>
  /\ UNCHANGED <<matVars, zipVars, resolverVars, uploadVars>>

\* gif.on('progress'): onProgress(100)
GifProgress ==
  /\ \E r \in DOMAIN recordings : recordings[r].pc = "render"
  /\ recordingProgress' = 100
  /\ UNCHANGED <<gifSettings, canvasWidth, isRecording, gifUrl, recordings>>
  /\ UNCHANGED <<matVars, zipVars, resolverVars, uploadVars>>

\* gif.on('finished'): resolve(blob); startRecording makes the URL, shows the
\* preview and runs its finally block
GifFinished ==
  /\ \E r \in DOMAIN recordings :
       /\ recordings[r].pc = "render"
       /\ recordings' = [recordings EXCEPT ![r].pc = "finished"]
       /\ gifUrl' = r
  /\ isRecording' = FALSE
  /\ recordingProgress' = 0
  /\ UNCHANGED <<gifSettings, canvasWidth>>
  /\ UNCHANGED <<matVars, zipVars, resolverVars, uploadVars>>

NextGif ==
  \/ ResizeCanvas
  \/ StartRecording
  \/ TestFrame
  \/ ImportResolved
  \/ ImportRejected
  \/ CaptureFrame
  \/ Render
  \/ GifProgress
  \/ GifFinished

SpecGif == InitGif /\ [][NextGif]_vars

\* Timers, animation frames and promise continuations that are due do run,
\* and the encoder finishes a render it was asked for; the capture callback
\* keeps running every frame interval, so it gets its turn whenever the
\* canvas is drawable again and again
SpecGifFair ==
  /\ InitGif
  /\ [][NextGif]_vars
  /\ WF_vars(TestFrame)
  /\ WF_vars(ImportResolved \/ ImportRejected)
  /\ SF_vars(CaptureFrame)
  /\ WF_vars(Render)
  /\ WF_vars(GifFinished)

(***************************************************************************)
(* Recording claims                                                        *)
(***************************************************************************)
\* C26: every started recording ends: the viewer's isRecording flag returns
\* to false after every start, also when capturing a frame throws.
C26_RecordingEnds == isRecording ~> ~isRecording

Capturing(r) == recordings[r].pc \in {"capture", "render", "finished"}

\* C27: a recording hands N = max(24, floor(duration * fps)) frames to the
\* encoder, one per counted capture step, and renders once, after the N-th
\* frame; during capture the progress is round(100 * k / N) after k frames
\* and is 100 exactly when all N frames are captured.
C27_FramesAndProgress ==
  \A r \in DOMAIN recordings :
    LET rec == recordings[r]
        N == totalFramesOf(gifSettings)
    IN Capturing(r) =>
         /\ rec.totalFrames = N
         /\ rec.frames = rec.frameCount
         /\ rec.frames <= N
         /\ rec.renders = (IF rec.pc = "capture" THEN 0 ELSE 1)
         /\ rec.renders = 1 => rec.frames = N
         /\ rec.pc = "capture" =>
              /\ recordingProgress = RoundPercent(rec.frameCount, N)
              /\ recordingProgress = 100 <=> rec.frameCount = N

\* C28: frame k is captured while the progress is round(100 * k / N), and no
\* frame is captured at progress 100, the angle of frame 0.
C28_NoFrameAtFullTurn ==
  \A r \in DOMAIN recordings :
    LET last == recordings[r].lastFrame
    IN last.k >= 0 =>
         /\ last.at = RoundPercent(last.k, recordings[r].totalFrames)
         /\ last.at < 100

\* C29: the 'Total Frames' figure of the control panel is the number of
\* frames a finished recording with these settings captured.
C29_TotalFramesShown ==
  \A r \in DOMAIN recordings :
    recordings[r].pc = "finished" => recordings[r].frames = totalFramesShown(gifSettings)

\* C30: at most one startRecording call is unfinished at any time.
C30_OneRecordingAtATime ==
  Cardinality({r \in DOMAIN recordings : recordings[r].pc \notin {"finished", "failed"}}) <= 1

\* A second recording captures frames after the first one finished
C30_Witness ==
  /\ Len(recordings) = 2
  /\ recordings[1].pc = "finished"
  /\ recordings[2].pc = "capture"
  /\ recordings[2].frameCount > 0
  /\ isRecording

====
